---- MODULE Spec2Model ----
(***************************************************************************)
(* The Brewin tree-walking interpreters (interpreterv1.py, interpreterv3.py *)
(* and interpreterv4.py) as one state machine.  The recursive evaluator of  *)
(* the source is unfolded into a control stack: every method of the source  *)
(* is one action, and the Python call stack is the sequence ctl.            *)
(***************************************************************************)
EXTENDS Integers, Sequences, FiniteSets, TLC

VARIABLES
    prog,          \* the program handed to Interpreter.run: version, AST, stdin
    functions,     \* global_scope.functions.functions: (name, argc) -> callable
    defined_types, \* Interpreter.defined_types (v3): type name -> schema
    ctl,           \* pending evaluator steps, Head(ctl) is executing
    vals,          \* values returned by finished evaluate_expression calls
    envs,          \* variable-scope chains of the active evaluations, Head is current
    frames,        \* active FunctionCall objects, Head is current
    heap,          \* Struct objects (v3), addressed by position
    output,        \* lines given to InterpreterBase.output
    input,         \* lines InterpreterBase.get_input has not handed out yet
    status,        \* "init", "running", "done" or "error"
    err            \* ErrorType of the error raised, "HOST" for a Python exception

vars == <<prog, functions, defined_types, ctl, vals, envs, frames, heap,
          output, input, status, err>>

----------------------------------------------------------------------------
(* Runtime values: a tag and a payload. *)

NIL == [t |-> "nil", v |-> 0]
IntV(n) == [t |-> "int", v |-> n]
StrV(s) == [t |-> "str", v |-> s]
BoolV(b) == [t |-> "bool", v |-> b]
StructV(id) == [t |-> "struct", v |-> id]

\* LazyExpression.__init__: the snapshot is a deep copy of the scope chain;
\* the chain is a value here, so holding it is the copy.
LazyExpression(scope, expression) ==
    [t |-> "thunk", v |-> [scope |-> scope, expression |-> expression]]

\* A Variable: the declared type (v3, "" elsewhere) and the value.
Variable(var_type, value) == [var_type |-> var_type, value |-> value]

\* VariableScope.__init__: no variables.
VariableScope == [n \in {} |-> Variable("", NIL)]

VAR_ARGS == -1

primitive_types == {"int", "string", "bool"}

----------------------------------------------------------------------------
(* Variable scope chains: a sequence of scopes, innermost first. *)

\* A lookup that would take the outermost scope that holds name.
RECURSIVE outermost_scope(_, _, _)
outermost_scope(chain, name, i) ==
    IF i > Len(chain) THEN 0
    ELSE LET j == outermost_scope(chain, name, i + 1)
         IN  IF j # 0 THEN j ELSE IF name \in DOMAIN chain[i] THEN i ELSE 0

\* VariableScope.check_variable along the parent links: the position of the
\* first scope that holds name, 0 when none does.
RECURSIVE find_scope(_, _, _)
find_scope(chain, name, i) ==
    IF i > Len(chain) THEN 0
    ELSE IF name \in DOMAIN chain[i] THEN i
    ELSE find_scope(chain, name, i + 1)

\* Python's str.split("."): the pieces of a dotted name.
RECURSIVE split_at(_, _, _)
split_at(name, i, acc) ==
    IF i > Len(name) THEN <<acc>>
    ELSE IF SubSeq(name, i, i) = "." THEN <<acc>> \o split_at(name, i + 1, "")
    ELSE split_at(name, i + 1, acc \o SubSeq(name, i, i))

split(name) == split_at(name, 1, "")

----------------------------------------------------------------------------
(* Results of the operators below: err is "" or the error raised. *)

Raised(kind) == [err |-> kind]

\* A coercion that would take the truth value of any value for a bool target.
truthy_coerce(var_type, value) ==
    IF var_type # "bool" THEN value
    ELSE CASE value.t = "int" -> BoolV(value.v # 0)
           [] value.t = "str" -> BoolV(value.v # "")
           [] value.t = "bool" -> value
           [] OTHER -> BoolV(FALSE)

\* Interpreter.coerce (v3): int to bool when the target is bool, else unchanged.
coerce(var_type, value) ==
    IF value.t \in {"int", "str", "bool"}
    THEN IF value.t = "int" /\ var_type = "bool" THEN BoolV(value.v # 0) ELSE value
    ELSE value

\* The Python type each primitive type name maps to (Interpreter.primitive_types).
py_type(var_type) ==
    CASE var_type = "int" -> "int"
      [] var_type = "string" -> "str"
      [] var_type = "bool" -> "bool"

\* A type check that would let every value pass.
no_type_check(types, hp, var_type, value) == ""

\* Interpreter.type_check (v3): "" when the value passes, else the error.
type_check(types, hp, var_type, value) ==
    IF var_type \notin DOMAIN types THEN "TYPE"
    ELSE IF var_type \in primitive_types
    THEN IF value.t # py_type(var_type) THEN "TYPE" ELSE ""
    ELSE IF value = NIL THEN ""
    ELSE IF value.t # "struct" THEN "TYPE"
    ELSE IF hp[value.v].struct_type # var_type THEN "TYPE"
    ELSE ""

\* A NIL reference that would pass for a live instance without fields.
live_Struct(hp, struct_type) ==
    [heap |-> Append(hp, [struct_type |-> struct_type, live |-> TRUE,
                          fields |-> VariableScope]),
     value |-> StructV(Len(hp) + 1)]

\* Struct.__init__ without new_struct: a Struct object whose fields are NIL.
Struct(hp, struct_type) ==
    [heap |-> Append(hp, [struct_type |-> struct_type, live |-> FALSE,
                          fields |-> VariableScope]),
     value |-> StructV(Len(hp) + 1)]

\* Variable.assign_default (v3): the default of the declared type.
assign_default(hp, var_type) ==
    CASE var_type = "int" -> [heap |-> hp, value |-> IntV(0)]
      [] var_type = "string" -> [heap |-> hp, value |-> StrV("")]
      [] var_type = "bool" -> [heap |-> hp, value |-> BoolV(FALSE)]
      [] OTHER -> Struct(hp, var_type)

\* Variable.__init__: v3 checks the type and takes its default; v1 and v4
\* start at None.
new_Variable(version, types, hp, var_type) ==
    IF version # 3 THEN [err |-> "", heap |-> hp, variable |-> Variable("", NIL)]
    ELSE IF var_type \notin DOMAIN types THEN Raised("TYPE")
    ELSE LET d == assign_default(hp, var_type)
         IN  [err |-> "", heap |-> d.heap, variable |-> Variable(var_type, d.value)]

\* An assignment that would store a copy of a struct, fields and all.
copy_assign(version, types, hp, variable, value) ==
    IF version # 3
    THEN [err |-> "", heap |-> hp, variable |-> Variable("", value)]
    ELSE LET c == coerce(variable.var_type, value)
             e == type_check(types, hp, variable.var_type, c)
         IN  IF e # "" THEN Raised(e)
             ELSE IF c = NIL
             THEN LET s == Struct(hp, variable.var_type)
                  IN  [err |-> "", heap |-> s.heap,
                       variable |-> Variable(variable.var_type, s.value)]
             ELSE IF c.t = "struct"
             THEN [err |-> "", heap |-> Append(hp, hp[c.v]),
                   variable |-> Variable(variable.var_type, StructV(Len(hp) + 1))]
             ELSE [err |-> "", heap |-> hp,
                   variable |-> Variable(variable.var_type, c)]

\* Variable.assign: v3 coerces, type-checks and wraps NIL in a typed Struct;
\* v1 and v4 store the value as it is.
Variable_assign(version, types, hp, variable, value) ==
    IF version # 3
    THEN [err |-> "", heap |-> hp, variable |-> Variable("", value)]
    ELSE LET c == coerce(variable.var_type, value)
             e == type_check(types, hp, variable.var_type, c)
         IN  IF e # "" THEN Raised(e)
             ELSE IF c = NIL
             THEN LET s == Struct(hp, variable.var_type)
                  IN  [err |-> "", heap |-> s.heap,
                       variable |-> Variable(variable.var_type, s.value)]
             ELSE [err |-> "", heap |-> hp,
                   variable |-> Variable(variable.var_type, c)]

\* A declaration that would replace a variable the scope already holds.
redeclare_variable(version, types, hp, chain, name, var_type) ==
    LET nv == new_Variable(version, types, hp, var_type)
    IN  IF nv.err # "" THEN nv
        ELSE [err |-> "", heap |-> nv.heap,
              chain |-> [chain EXCEPT ![1] = (name :> nv.variable) @@ chain[1]]]

\* VariableScope.declare_variable in the innermost scope of the chain.
declare_variable(version, types, hp, chain, name, var_type) ==
    IF name \in DOMAIN chain[1] THEN Raised("NAME")
    ELSE LET nv == new_Variable(version, types, hp, var_type)
         IN  IF nv.err # "" THEN nv
             ELSE [err |-> "", heap |-> nv.heap,
                   chain |-> [chain EXCEPT ![1] = (name :> nv.variable) @@ chain[1]]]

\* The text after the first "." of a dotted name.
RECURSIVE join(_)
join(parts) ==
    IF Len(parts) = 1 THEN parts[1] ELSE parts[1] \o "." \o join(Tail(parts))

\* VariableScope.get_variable and Struct.get_variable.
RECURSIVE get_variable(_, _, _, _)
get_variable(version, hp, chain, name) ==
    LET parts == split(name)
    IN  IF version = 3 /\ Len(parts) > 1
        THEN LET struct == get_variable(version, hp, chain, parts[1])
             IN  IF struct.err # "" THEN struct
                 ELSE IF struct.value.t # "struct" THEN Raised("HOST")
                 ELSE IF ~hp[struct.value.v].live THEN Raised("FAULT")
                 ELSE get_variable(version, hp, <<hp[struct.value.v].fields>>,
                                   join(Tail(parts)))
        ELSE LET i == find_scope(chain, name, 1)
             IN  IF i = 0 THEN Raised("NAME")
                 ELSE [err |-> "", value |-> chain[i][name].value]

\* VariableScope.assign_variable and Struct.assign_variable.
RECURSIVE assign_variable(_, _, _, _, _, _)
assign_variable(version, types, hp, chain, name, value) ==
    LET parts == split(name)
    IN  IF version = 3 /\ Len(parts) > 1
        THEN LET struct == get_variable(version, hp, chain, parts[1])
             IN  IF struct.err # "" THEN struct
                 ELSE IF struct.value.t # "struct" THEN Raised("HOST")
                 ELSE IF ~hp[struct.value.v].live THEN Raised("FAULT")
                 ELSE LET id == struct.value.v
                          r == assign_variable(version, types, hp, <<hp[id].fields>>,
                                               join(Tail(parts)), value)
                      IN  IF r.err # "" THEN r
                          ELSE [err |-> "", chain |-> chain,
                                heap |-> [r.heap EXCEPT ![id].fields = r.chain[1]]]
        ELSE LET i == find_scope(chain, name, 1)
             IN  IF i = 0 THEN Raised("NAME")
                 ELSE LET a == Variable_assign(version, types, hp, chain[i][name], value)
                      IN  IF a.err # "" THEN a
                          ELSE [err |-> "", heap |-> a.heap,
                                chain |-> [chain EXCEPT ![i][name] = a.variable]]

\* Struct.__init__ with new_struct: a live Struct, one field variable per
\* schema entry, each at its default.
RECURSIVE declare_fields(_, _, _, _)
declare_fields(types, hp, scope, fields) ==
    IF fields = <<>> THEN [err |-> "", heap |-> hp, chain |-> scope]
    ELSE LET d == declare_variable(3, types, hp, scope, fields[1].name, fields[1].var_type)
         IN  IF d.err # "" THEN d
             ELSE declare_fields(types, d.heap, d.chain, Tail(fields))

new_Struct(types, hp, struct_type) ==
    IF types[struct_type].prim THEN Raised("HOST")
    ELSE LET id == Len(hp) + 1
             h0 == Append(hp, [struct_type |-> struct_type, live |-> TRUE,
                               fields |-> VariableScope])
             d == declare_fields(types, h0, <<VariableScope>>, types[struct_type].fields)
         IN  IF d.err # "" THEN d
             ELSE [err |-> "", value |-> StructV(id),
                   heap |-> [d.heap EXCEPT ![id].fields = d.chain[1]]]

----------------------------------------------------------------------------
(* Operators of the language. *)

Ok(value) == [err |-> "", value |-> value]

MaxLit == 9

\* Python's int(str): the decimal numerals up to MaxLit digits' worth parse,
\* every other text raises ValueError.
int_of_str(s) ==
    IF \E n \in -MaxLit..MaxLit : ToString(n) = s
    THEN Ok(IntV(CHOOSE n \in -MaxLit..MaxLit : ToString(n) = s))
    ELSE Raised("TYPE")

\* FunctionCall.cast_value(value, int) of v1: int(value), TYPE when it fails.
cast_value(value) ==
    CASE value.t = "int" -> Ok(value)
      [] value.t = "str" -> int_of_str(value.v)
      [] OTHER -> Raised("TYPE")

\* Python's left // right on ints, right # 0: the floor of the quotient.
floor_div(left, right) ==
    LET al == IF left < 0 THEN -left ELSE left
        ar == IF right < 0 THEN -right ELSE right
        q == al \div ar
    IN  IF (left < 0) = (right < 0) THEN q
        ELSE IF q * ar = al THEN -q ELSE -(q + 1)

\* A division without the check of the divisor: Python's ZeroDivisionError.
unchecked_divide(left, right) ==
    IF right = 0 THEN Raised("HOST") ELSE Ok(IntV(floor_div(left, right)))

\* The DIVIDE_NODE case of evaluate_binary_op (v3 and v4), operands checked.
divide(left, right) ==
    IF right = 0 THEN Raised("TYPE") ELSE Ok(IntV(floor_div(left, right)))

\* The arithmetic and ordering cases that take two ints (v3 and v4).
int_op(k, left, right) ==
    IF left.t # "int" \/ right.t # "int" THEN Raised("TYPE")
    ELSE CASE k = "-" -> Ok(IntV(left.v - right.v))
           [] k = "*" -> Ok(IntV(left.v * right.v))
           [] k = "/" -> divide(left.v, right.v)
           [] k = ">" -> Ok(BoolV(left.v > right.v))
           [] k = "<" -> Ok(BoolV(left.v < right.v))
           [] k = ">=" -> Ok(BoolV(left.v >= right.v))
           [] k = "<=" -> Ok(BoolV(left.v <= right.v))

\* The ADD_NODE case (v3 and v4): two ints or two strings.
add_op(left, right) ==
    IF left.t = "int" /\ right.t = "int" THEN Ok(IntV(left.v + right.v))
    ELSE IF left.t = "str" /\ right.t = "str" THEN Ok(StrV(left.v \o right.v))
    ELSE Raised("TYPE")

\* Python's left == right on two values of the evaluator: None, int, str and
\* bool compare by value, Struct objects (no __eq__) by identity.
py_eq(left, right) == left.t = right.t /\ left.v = right.v

\* An EQUALS_NODE case that would compare two structs of one type by their
\* fields.
equals_by_fields(hp, left0, right0) ==
    LET right1 == IF left0.t = "bool" THEN coerce("bool", right0) ELSE right0
        left1 == IF left0.t # "bool" /\ right0.t = "bool"
                 THEN coerce("bool", left0) ELSE left0
    IN  IF left1.t = "struct" \/ right1.t = "struct"
        THEN IF (left1.t = "struct" /\ right1 = NIL) \/ (right1.t = "struct" /\ left1 = NIL)
             THEN LET s == IF left1.t = "struct" THEN left1 ELSE right1
                  IN  Ok(BoolV(~hp[s.v].live))
             ELSE IF left1.t # "struct" \/ right1.t # "struct"
             THEN Raised("HOST")
             ELSE IF hp[left1.v].struct_type # hp[right1.v].struct_type
             THEN Raised("TYPE")
             ELSE Ok(BoolV(hp[left1.v] = hp[right1.v]))
        ELSE IF left1.t # right1.t THEN Raised("TYPE")
        ELSE Ok(BoolV(py_eq(left1, right1)))

\* The EQUALS_NODE case of v3, as a Python truth value; NOT_EQUALS_NODE is the
\* same text with != in the last line.
equals_v3(hp, left0, right0) ==
    LET right1 == IF left0.t = "bool" THEN coerce("bool", right0) ELSE right0
        left1 == IF left0.t # "bool" /\ right0.t = "bool"
                 THEN coerce("bool", left0) ELSE left0
    IN  IF left1.t = "struct" \/ right1.t = "struct"
        THEN IF (left1.t = "struct" /\ right1 = NIL) \/ (right1.t = "struct" /\ left1 = NIL)
             THEN \* the Struct side becomes its fields: None when it is NIL
                  LET s == IF left1.t = "struct" THEN left1 ELSE right1
                  IN  Ok(BoolV(~hp[s.v].live))
             ELSE IF left1.t # "struct" \/ right1.t # "struct"
             THEN Raised("HOST")  \* .struct_type of a value that is no Struct
             ELSE IF hp[left1.v].struct_type # hp[right1.v].struct_type
             THEN Raised("TYPE")
             ELSE Ok(BoolV(py_eq(left1, right1)))
        ELSE IF left1.t # right1.t THEN Raised("TYPE")
        ELSE Ok(BoolV(py_eq(left1, right1)))

negate(r) == IF r.err # "" THEN r ELSE Ok(BoolV(~r.value.v))

\* The AND_NODE and OR_NODE cases: v3 coerces first, both check for bool.
logic_op(version, k, left0, right0) ==
    LET left == IF version = 3 THEN coerce("bool", left0) ELSE left0
        right == IF version = 3 THEN coerce("bool", right0) ELSE right0
    IN  IF left.t # "bool" \/ right.t # "bool" THEN Raised("TYPE")
        ELSE IF k = "&&" THEN Ok(BoolV(left.v /\ right.v))
        ELSE Ok(BoolV(left.v \/ right.v))

BINARY_OP_NODES(version) ==
    IF version = 1 THEN {"+", "-"}
    ELSE {"+", "-", "*", "/", "==", "!=", ">", "<", ">=", "<=", "&&", "||"}

UNARY_OP_NODES(version) == IF version = 1 THEN {} ELSE {"neg", "!"}

VAL_NODES(version) ==
    IF version = 1 THEN {"int", "string"} ELSE {"int", "string", "bool", "nil"}

\* The other node kinds evaluate_expression has a case for.
OTHER_EXP_NODES(version) == IF version = 3 THEN {"var", "fcall", "new"} ELSE {"var", "fcall"}

STATEMENT_NODES(version) ==
    CASE version = 1 -> {"vardef", "=", "fcall"}
      [] version = 3 -> {"vardef", "=", "fcall", "if", "for"}
      [] OTHER -> {"vardef", "=", "fcall", "if", "for", "return"}

\* evaluate_binary_op once both operands are evaluated.
evaluate_binary_op(version, hp, k, left, right) ==
    IF version = 1
    THEN LET l == cast_value(left)
             r == cast_value(right)
         IN  IF l.err # "" THEN l
             ELSE IF r.err # "" THEN r
             ELSE IF k = "+" THEN Ok(IntV(l.value.v + r.value.v))
             ELSE Ok(IntV(l.value.v - r.value.v))
    ELSE CASE k = "+" -> add_op(left, right)
           [] k \in {"-", "*", "/", ">", "<", ">=", "<="} -> int_op(k, left, right)
           [] k = "==" -> IF version = 3 THEN equals_v3(hp, left, right)
                          ELSE Ok(BoolV(py_eq(left, right)))
           [] k = "!=" -> IF version = 3 THEN negate(equals_v3(hp, left, right))
                          ELSE Ok(BoolV(~py_eq(left, right)))
           [] k \in {"&&", "||"} -> logic_op(version, k, left, right)

\* evaluate_unary_op once the operand is evaluated.
evaluate_unary_op(version, k, value0) ==
    IF k = "neg"
    THEN IF value0.t # "int" THEN Raised("TYPE") ELSE Ok(IntV(-value0.v))
    ELSE LET value == IF version = 3 THEN coerce("bool", value0) ELSE value0
         IN  IF value.t # "bool" THEN Raised("TYPE") ELSE Ok(BoolV(~value.v))

\* evaluate_condition: the value as a Python bool (v3 coerces first).
evaluate_condition(version, value0) ==
    LET value == IF version = 3 THEN coerce("bool", value0) ELSE value0
    IN  IF value.t # "bool" THEN Raised("TYPE") ELSE Ok(value)

\* The value of a value node: expression.get("val").
node_value(e) ==
    CASE e.k = "int" -> IntV(e.val)
      [] e.k = "string" -> StrV(e.val)
      [] e.k = "bool" -> BoolV(e.val)
      [] e.k = "nil" -> NIL

\* Python's str(val).
py_str(hp, value) ==
    CASE value.t = "int" -> ToString(value.v)
      [] value.t = "str" -> value.v
      [] value.t = "bool" -> IF value.v THEN "True" ELSE "False"
      [] value.t = "nil" -> "None"
      [] OTHER -> "<object>"

\* PrintFunctionCall.run: what one argument contributes to the line.
print_item(version, hp, value) ==
    IF version = 1 THEN py_str(hp, value)
    ELSE IF value.t = "bool" THEN (IF value.v THEN "true" ELSE "false")
    ELSE IF value = NIL THEN "nil"
    ELSE IF value.t = "struct"
    THEN IF ~hp[value.v].live THEN "nil" ELSE "<object>"
    ELSE py_str(hp, value)

RECURSIVE print_line(_, _, _)
print_line(version, hp, values) ==
    IF values = <<>> THEN ""
    ELSE print_item(version, hp, values[1]) \o print_line(version, hp, Tail(values))

----------------------------------------------------------------------------
(* Function scopes and the set-up of the global scope. *)

\* FunctionScope.__init__: no functions.
FunctionScope == [key \in {} |-> 0]

builtin(kind, return_type) ==
    [kind |-> kind,
     node |-> [name |-> kind, args |-> <<>>, statements |-> <<>>,
               return_type |-> return_type]]

\* FunctionScope.check_function (v3, v4) along a chain of function scopes.
RECURSIVE check_function(_, _, _, _)
check_function(fchain, name, argc, recursive) ==
    IF <<name, argc>> \in DOMAIN fchain[1] THEN TRUE
    ELSE IF <<name, VAR_ARGS>> \in DOMAIN fchain[1] THEN TRUE
    ELSE IF recursive /\ Len(fchain) > 1
    THEN check_function(Tail(fchain), name, argc, recursive)
    ELSE FALSE

\* FunctionScope.get_function (v3, v4) along a chain of function scopes.
RECURSIVE get_function(_, _, _)
get_function(fchain, name, argc) ==
    IF <<name, argc>> \in DOMAIN fchain[1] THEN Ok(fchain[1][<<name, argc>>])
    ELSE IF Len(fchain) > 1 THEN get_function(Tail(fchain), name, argc)
    ELSE IF <<name, VAR_ARGS>> \in DOMAIN fchain[1] THEN Ok(fchain[1][<<name, VAR_ARGS>>])
    ELSE Raised("NAME")

\* Scope.get_function of v1: functions are keyed by name alone.
RECURSIVE get_function_v1(_, _)
get_function_v1(fchain, name) ==
    IF name \in DOMAIN fchain[1] THEN Ok(fchain[1][name])
    ELSE IF Len(fchain) > 1 THEN get_function_v1(Tail(fchain), name)
    ELSE Raised("NAME")

\* Every Scope made for a call or a block starts an empty function scope whose
\* parent is the caller's: lookups from code run through it to the global one.
lookup_function(version, funcs, name, argc) ==
    IF version = 1 THEN get_function_v1(<<FunctionScope, funcs>>, name)
    ELSE get_function(<<FunctionScope, funcs>>, name, argc)

\* Interpreter.add_struct (v3).
RECURSIVE add_fields(_, _, _)
add_fields(types, struct_name, field_defs) ==
    IF field_defs = <<>> THEN [err |-> "", types |-> types]
    ELSE LET f == field_defs[1]
             old == types[struct_name].fields
             pos == {i \in 1..Len(old) : old[i].name = f.name}
             new == IF pos = {} THEN Append(old, f)
                    ELSE [i \in 1..Len(old) |-> IF i \in pos THEN f ELSE old[i]]
         IN  IF f.var_type \notin DOMAIN types THEN Raised("TYPE")
             ELSE add_fields([types EXCEPT ![struct_name].fields = new],
                             struct_name, Tail(field_defs))

add_struct(types, struct_def) ==
    IF struct_def.name \in DOMAIN types THEN Raised("TYPE")
    ELSE add_fields((struct_def.name :> [prim |-> FALSE, fields |-> <<>>]) @@ types,
                    struct_def.name, struct_def.fields)

RECURSIVE add_structs(_, _)
add_structs(types, struct_defs) ==
    IF struct_defs = <<>> THEN [err |-> "", types |-> types]
    ELSE LET r == add_struct(types, struct_defs[1])
         IN  IF r.err # "" THEN r ELSE add_structs(r.types, Tail(struct_defs))

\* Interpreter.__init__: the primitive types.
initial_types == [n \in primitive_types |-> [prim |-> TRUE, fields |-> <<>>]]

\* Function.__init__ and FunctionScope.add_function for each function node.
RECURSIVE add_functions(_, _, _, _)
add_functions(version, types, funcs, nodes) ==
    IF nodes = <<>> THEN [err |-> "", functions |-> funcs]
    ELSE LET f == nodes[1]
             key == IF version = 1 THEN f.name ELSE <<f.name, Len(f.args)>>
         IN  IF version = 3 /\ f.return_type # "void" /\ f.return_type \notin DOMAIN types
             THEN Raised("TYPE")
             ELSE add_functions(version, types,
                                (key :> [kind |-> "user", node |-> f]) @@ funcs,
                                Tail(nodes))

\* Built-in input functions that would take any number of arguments.
variadic_builtins(version) ==
    IF version = 1
    THEN ("print" :> builtin("print", "void")) @@ ("inputi" :> builtin("inputi", "int"))
    ELSE (<<"print", VAR_ARGS>> :> builtin("print", "void"))
         @@ (<<"inputi", VAR_ARGS>> :> builtin("inputi", "int"))
         @@ (<<"inputs", VAR_ARGS>> :> builtin("inputs", "string"))

\* The built-in functions setup_global_scope (setup_main_scope in v1) registers.
builtins(version) ==
    IF version = 1
    THEN ("print" :> builtin("print", "void")) @@ ("inputi" :> builtin("inputi", "int"))
    ELSE (<<"print", VAR_ARGS>> :> builtin("print", "void"))
         @@ (<<"inputi", 0>> :> builtin("inputi", "int"))
         @@ (<<"inputi", 1>> :> builtin("inputi", "int"))
         @@ (<<"inputs", 0>> :> builtin("inputs", "string"))
         @@ (<<"inputs", 1>> :> builtin("inputs", "string"))

\* Interpreter.setup_global_scope: structs (v3), built-ins, then the functions.
setup_global_scope(program) ==
    LET t == IF program.version = 3 THEN add_structs(initial_types, program.structs)
             ELSE [err |-> "", types |-> initial_types]
    IN  IF t.err # "" THEN t
        ELSE LET f == add_functions(program.version, t.types,
                                    builtins(program.version), program.functions)
             IN  IF f.err # "" THEN f
                 ELSE [err |-> "", types |-> t.types, functions |-> f.functions]

\* A driver that would not look for main before it calls it.
any_main(version, funcs) == TRUE

\* Scope.check_function as Interpreter.run calls it on the global scope.
check_main(version, funcs) ==
    IF version = 1 THEN "main" \in DOMAIN funcs
    ELSE <<"main", 0>> \in DOMAIN funcs \/ <<"main", VAR_ARGS>> \in DOMAIN funcs

----------------------------------------------------------------------------
(* The AST the parser hands over: a node is its elem_type k and its fields. *)

IntNode(n) == [k |-> "int", val |-> n]
StrNode(s) == [k |-> "string", val |-> s]
BoolNode(b) == [k |-> "bool", val |-> b]
Nil == [k |-> "nil"]
Var(name) == [k |-> "var", name |-> name]
Bin(k, op1, op2) == [k |-> k, op1 |-> op1, op2 |-> op2]
Un(k, op1) == [k |-> k, op1 |-> op1]
FcallNode(name, args) == [k |-> "fcall", name |-> name, args |-> args]
New(struct_type) == [k |-> "new", struct_type |-> struct_type]
NoExpression == [k |-> "none"]

VarDef(name, var_type) == [k |-> "vardef", name |-> name, var_type |-> var_type]
AssignNode(name, expression) == [k |-> "=", name |-> name, expression |-> expression]
IfNode(condition, statements, else_statements) ==
    [k |-> "if", condition |-> condition, statements |-> statements,
     else_statements |-> else_statements]
ForNode(init, condition, update, statements) ==
    [k |-> "for", init |-> init, condition |-> condition, update |-> update,
     statements |-> statements]
ReturnNode(expression) == [k |-> "return", expression |-> expression]
PrintNode(args) == FcallNode("print", args)

Arg(name, var_type) == [name |-> name, var_type |-> var_type]
Func(name, args, return_type, statements) ==
    [name |-> name, args |-> args, return_type |-> return_type, statements |-> statements]
StructDef(name, fields) == [name |-> name, fields |-> fields]

\* A program: the interpreter version it is run by, the AST and the lines of
\* standard input; family and params name the program among those explored.
Program(ver, family, params, structs, funcs, lines) ==
    [version |-> ver, family |-> family, params |-> params,
     structs |-> structs, functions |-> funcs, inp |-> lines]

Main(statements) == Func("main", <<>>, "void", statements)

Say(text) == PrintNode(<<StrNode(text)>>)

\* An int literal; the parser gives a negative one as neg of its magnitude.
Lit(n) == IF n < 0 THEN Un("neg", IntNode(-n)) ELSE IntNode(n)

----------------------------------------------------------------------------
(* The evaluator as a machine.  An entry of ctl is one pending step of a    *)
(* method of the source; the steps of a method are pushed in program order. *)

version == prog.version

M == [ctl |-> ctl, vals |-> vals, envs |-> envs, frames |-> frames, heap |-> heap,
      output |-> output, input |-> input, status |-> status, err |-> err]

Set(m) ==
    /\ ctl' = m.ctl
    /\ vals' = m.vals
    /\ envs' = m.envs
    /\ frames' = m.frames
    /\ heap' = m.heap
    /\ output' = m.output
    /\ input' = m.input
    /\ status' = m.status
    /\ err' = m.err
    /\ UNCHANGED <<prog, functions, defined_types>>

\* InterpreterBase.error, or a Python exception: the run ends there.
Error(m, kind) == [m EXCEPT !.status = "error", !.err = kind]

\* The executing step is replaced by the steps it breaks into.
Continue(m, steps) == [m EXCEPT !.ctl = steps \o Tail(@)]

Push(m, value) == [m EXCEPT !.vals = Append(@, value)]

Pop(m, n) == [m EXCEPT !.vals = SubSeq(@, 1, Len(@) - n)]

Top(n) == SubSeq(vals, Len(vals) - n + 1, Len(vals))

At(op) == status = "running" /\ ctl # <<>> /\ Head(ctl).op = op

Eval(e) == [op |-> "eval", e |-> e]

Stmt(s) == [op |-> "stmt", s |-> s]

EvalAll(es) == [i \in 1..Len(es) |-> Eval(es[i])]

\* CodeBlock.__init__ / Scope.__init__: a new scope whose parent is the chain.
child_scope(chain) == <<VariableScope>> \o chain

\* A thunk that would evaluate in the scope as it is when the thunk is forced,
\* not in its snapshot: what the snapshot is there to rule out.
live_scope(thunk, current) == child_scope(child_scope(current))

\* The chain a LazyExpression evaluates in: the Scope made in __init__ and
\* the CodeBlock scope made in evaluate, on top of the snapshot.
thunk_scope(thunk, current) == child_scope(child_scope(thunk.scope))

\* A call whose scope would hang on the calling scope in every version.
dynamic_scope(ver, calling_chain) == child_scope(calling_chain)

\* FunctionCall.__init__: the scope of a call.  v1 hangs it on the calling
\* scope, v3 and v4 on the global scope.
call_scope(ver, calling_chain) ==
    IF ver = 1 THEN child_scope(calling_chain)
    ELSE child_scope(<<VariableScope>>)

----------------------------------------------------------------------------
(* Interpreter.run *)

Start ==
    /\ status = "init"
    /\ LET g == setup_global_scope(prog)
       IN  IF g.err # ""
           THEN /\ status' = "error" /\ err' = g.err
                /\ UNCHANGED <<functions, defined_types, ctl>>
           ELSE /\ functions' = g.functions
                /\ defined_types' = g.types
                /\ IF ~check_main(version, g.functions)
                   THEN status' = "error" /\ err' = "NAME" /\ ctl' = ctl
                   ELSE IF (IF version = 1 THEN "main" ELSE <<"main", 0>>)
                               \notin DOMAIN g.functions
                   THEN status' = "error" /\ err' = "HOST" /\ ctl' = ctl
                   ELSE /\ status' = "running" /\ err' = err
                        /\ ctl' = <<[op |-> "call", argc |-> 0, args |-> <<>>,
                                     function |-> g.functions[IF version = 1 THEN "main"
                                                              ELSE <<"main", 0>>]],
                                    [op |-> "discard"]>>
    /\ UNCHANGED <<prog, vals, envs, frames, heap, output, input>>

\* Interpreter.run returns.
Finish ==
    /\ status = "running" /\ ctl = <<>>
    /\ Set([M EXCEPT !.status = "done"])

----------------------------------------------------------------------------
(* CodeBlock.evaluate_expression (FunctionCall.evaluate_expression in v1) *)

EvalVal ==
    /\ At("eval") /\ Head(ctl).e.k \in VAL_NODES(version)
    /\ Set(Push(Continue(M, <<>>), node_value(Head(ctl).e)))

\* A read that would take whatever the variable holds for a value.
never_lazy(value) == FALSE

\* isinstance(var_val, LazyExpression)
is_lazy(value) == value.t = "thunk"

\* The VAR_NODE case when the variable holds a value (or is not declared).
EvalVar ==
    /\ At("eval") /\ Head(ctl).e.k = "var"
    /\ LET r == get_variable(version, heap, envs[1], Head(ctl).e.name)
       IN  /\ IF r.err # "" THEN TRUE ELSE ~is_lazy(r.value)
           /\ IF r.err # "" THEN Set(Error(M, r.err))
              ELSE Set(Push(Continue(M, <<>>), r.value))

\* The forcing of thunks nests no deeper than this many scope chains.
MaxDepth == 12

\* The VAR_NODE case of v4 when the variable holds a LazyExpression:
\* LazyExpression.evaluate runs the expression in the thunk's scope.
Force ==
    /\ At("eval") /\ Head(ctl).e.k = "var" /\ Len(envs) < MaxDepth
    /\ LET r == get_variable(version, heap, envs[1], Head(ctl).e.name)
       IN  /\ IF r.err # "" THEN FALSE ELSE is_lazy(r.value)
           /\ Set([Continue(M, <<Eval(r.value.v.expression),
                                  [op |-> "memo", name |-> Head(ctl).e.name]>>)
                      EXCEPT !.envs = <<thunk_scope(r.value.v, envs[1])>> \o @])

\* A read that would not cache the value it forced.
forget(ver, types, hp, chain, name, value) == chain

\* The value comes back: it is cached in the variable that was read.
memoize(ver, types, hp, chain, name, value) ==
    assign_variable(ver, types, hp, chain, name, value).chain

Memo ==
    /\ At("memo")
    /\ LET value == vals[Len(vals)]
           back == Tail(envs)
       IN  Set([Continue(M, <<>>) EXCEPT !.envs =
                  <<memoize(version, defined_types, heap, back[1], Head(ctl).name, value)>>
                  \o Tail(back)])

\* An operator that would evaluate its right operand first.
right_first_steps(k, op1, op2) == <<Eval(op2), Eval(op1), [op |-> "binary", k |-> k]>>

\* evaluate_binary_op: op1 is evaluated, then op2, then the operator is matched.
binary_steps(k, op1, op2) == <<Eval(op1), Eval(op2), [op |-> "binary", k |-> k]>>

EvalBinary ==
    /\ At("eval") /\ Head(ctl).e.k \in BINARY_OP_NODES(version)
    /\ Set(Continue(M, binary_steps(Head(ctl).e.k, Head(ctl).e.op1, Head(ctl).e.op2)))

ApplyBinary ==
    /\ At("binary")
    /\ LET args == Top(2)
           r == evaluate_binary_op(version, heap, Head(ctl).k, args[1], args[2])
       IN  IF r.err # "" THEN Set(Error(M, r.err))
           ELSE Set(Push(Pop(Continue(M, <<>>), 2), r.value))

EvalUnary ==
    /\ At("eval") /\ Head(ctl).e.k \in UNARY_OP_NODES(version)
    /\ Set(Continue(M, <<Eval(Head(ctl).e.op1), [op |-> "unary", k |-> Head(ctl).e.k]>>))

ApplyUnary ==
    /\ At("unary")
    /\ LET r == evaluate_unary_op(version, Head(ctl).k, vals[Len(vals)])
       IN  IF r.err # "" THEN Set(Error(M, r.err))
           ELSE Set(Push(Pop(Continue(M, <<>>), 1), r.value))

\* The FCALL_NODE case: v1 refuses a function that returns no value, v3 one
\* declared void, before the call is made.
EvalFcall ==
    /\ At("eval") /\ Head(ctl).e.k = "fcall"
    /\ LET e == Head(ctl).e
           f == lookup_function(version, functions, e.name, Len(e.args))
       IN  IF version = 4 THEN Set(Continue(M, <<[op |-> "fcall", e |-> e]>>))
           ELSE IF f.err # "" THEN Set(Error(M, f.err))
           ELSE IF version = 1 /\ f.value.kind # "inputi" THEN Set(Error(M, "TYPE"))
           ELSE IF version = 3 /\ f.value.node.return_type = "void"
           THEN Set(Error(M, "TYPE"))
           ELSE Set(Continue(M, <<[op |-> "fcall", e |-> e]>>))

\* The NEW_NODE case (v3).
EvalNew ==
    /\ At("eval") /\ Head(ctl).e.k = "new" /\ version = 3
    /\ LET struct_type == Head(ctl).e.struct_type
       IN  IF struct_type \notin DOMAIN defined_types THEN Set(Error(M, "TYPE"))
           ELSE LET r == new_Struct(defined_types, heap, struct_type)
                IN  IF r.err # "" THEN Set(Error(M, r.err))
                    ELSE Set(Push([Continue(M, <<>>) EXCEPT !.heap = r.heap], r.value))

\* case _: raise Exception("Invalid expression ...")
EvalInvalid ==
    /\ At("eval")
    /\ Head(ctl).e.k \notin VAL_NODES(version) \cup BINARY_OP_NODES(version)
                            \cup UNARY_OP_NODES(version) \cup OTHER_EXP_NODES(version)
    /\ Set(Error(M, "HOST"))

----------------------------------------------------------------------------
(* CodeBlock.evaluate_fcall and the FunctionCall classes *)

\* evaluate_fcall: the function is looked up, then (v3, v4) the arguments are
\* evaluated left to right; v1 hands the argument nodes over as they are.
call_steps(ver, function, args) ==
    IF ver = 1
    THEN <<[op |-> "call", argc |-> Len(args), args |-> args, function |-> function]>>
    ELSE EvalAll(args)
         \o <<[op |-> "call", argc |-> Len(args), args |-> <<>>, function |-> function]>>

Fcall ==
    /\ At("fcall")
    /\ LET e == Head(ctl).e
           f == lookup_function(version, functions, e.name, Len(e.args))
       IN  IF f.err # "" THEN Set(Error(M, f.err))
           ELSE Set(Continue(M, call_steps(version, f.value, e.args)))

\* FunctionCall.__init__ (v3, v4): each parameter is declared in the scope of
\* the call and assigned its argument.
RECURSIVE bind_args(_, _, _, _, _, _)
bind_args(ver, types, hp, chain, arg_values, arg_nodes) ==
    IF arg_values = <<>> \/ arg_nodes = <<>> THEN [err |-> "", heap |-> hp, chain |-> chain]
    ELSE LET d == declare_variable(ver, types, hp, chain, arg_nodes[1].name,
                                   arg_nodes[1].var_type)
         IN  IF d.err # "" THEN d
             ELSE LET a == assign_variable(ver, types, d.heap, d.chain,
                                           arg_nodes[1].name, arg_values[1])
                  IN  IF a.err # "" THEN a
                      ELSE bind_args(ver, types, a.heap, a.chain,
                                     Tail(arg_values), Tail(arg_nodes))

\* A FunctionCall object as __init__ leaves it.
FunctionCall(function) ==
    [name |-> function.node.name, hit_return |-> FALSE,
     return_type |-> function.node.return_type,
     has_variable |-> FALSE, return_value |-> NIL]

\* The first lines of FunctionCall.run in v3: the return slot of a function
\* that is not void is a Variable of the return type.
return_slot(ver, types, hp, fcall) ==
    IF ver = 3 /\ fcall.return_type # "void"
    THEN LET nv == new_Variable(3, types, hp, fcall.return_type)
         IN  IF nv.err # "" THEN nv
             ELSE [err |-> "", heap |-> nv.heap,
                   fcall |-> [fcall EXCEPT !.has_variable = TRUE,
                                           !.return_value = nv.variable.value]]
    ELSE [err |-> "", heap |-> hp, fcall |-> fcall]

\* Function.execute: FunctionCall.__init__, then the start of its run.
Call ==
    /\ At("call")
    /\ LET c == Head(ctl)
           function == c.function
           scope == call_scope(version, envs[1])
           b == IF version = 1 THEN [err |-> "", heap |-> heap, chain |-> scope]
                ELSE bind_args(version, defined_types, heap, scope,
                               Top(c.argc), function.node.args)
       IN  IF b.err # "" THEN Set(Error(M, b.err))
           ELSE LET m1 == [(IF version = 1 THEN M ELSE Pop(M, c.argc))
                              EXCEPT !.envs = <<b.chain>> \o @, !.heap = b.heap]
                    values == IF version = 1 THEN <<>> ELSE Top(c.argc)
                IN  IF function.kind = "user"
                    THEN LET r == return_slot(version, defined_types, b.heap,
                                              FunctionCall(function))
                         IN  IF r.err # "" THEN Set(Error(M, r.err))
                             ELSE Set([Continue(m1,
                                         <<[op |-> IF version = 1 THEN "run" ELSE "block",
                                            statements |-> function.node.statements],
                                           [op |-> "ret"]>>)
                                       EXCEPT !.frames = <<r.fcall>> \o @, !.heap = r.heap])
                    ELSE IF function.kind = "print"
                    THEN Set([Continue(m1,
                                IF version = 1
                                THEN EvalAll(c.args) \o <<[op |-> "print", argc |-> c.argc]>>
                                ELSE <<[op |-> "print", argc |-> c.argc]>>)
                              EXCEPT !.frames = <<FunctionCall(function)>> \o @,
                                     !.vals = @ \o values])
                    ELSE \* InputIFunctionCall.run, InputSFunctionCall.run: at most one argument
                         IF c.argc > 1 THEN Set(Error(M, "NAME"))
                         ELSE Set([Continue(m1,
                                     IF version = 1
                                     THEN EvalAll(c.args)
                                          \o <<[op |-> "input", argc |-> c.argc,
                                                kind |-> function.kind]>>
                                     ELSE <<[op |-> "input", argc |-> c.argc,
                                             kind |-> function.kind]>>)
                                   EXCEPT !.frames = <<FunctionCall(function)>> \o @,
                                          !.vals = @ \o values])

\* The scopes after a call returns: the scope of the call is dropped.  In v1
\* the calling scope is its parent, and keeps what the call assigned in it.
after_call(ver, scopes) ==
    IF ver = 1 THEN <<Tail(scopes[1])>> \o Tail(Tail(scopes))
    ELSE Tail(scopes)

\* PrintFunctionCall.run
PrintCall ==
    /\ At("print")
    /\ LET n == Head(ctl).argc
       IN  Set(Push([Pop(Continue(M, <<>>), n)
                       EXCEPT !.output = Append(@, print_line(version, heap, Top(n))),
                              !.envs = after_call(version, @),
                              !.frames = Tail(@)],
                    NIL))

\* InterpreterBase.get_input: the next line, None when there is none left.
get_input(lines) == IF lines = <<>> THEN NIL ELSE StrV(lines[1])

\* InputIFunctionCall.run and InputSFunctionCall.run (InputFunctionCall.run in v1)
InputCall ==
    /\ At("input")
    /\ LET n == Head(ctl).argc
           line == get_input(input)
           out == IF n > 0 THEN Append(output, py_str(heap, vals[Len(vals)])) ELSE output
           m1 == [Pop(Continue(M, <<>>), n)
                    EXCEPT !.output = out,
                           !.input = IF @ = <<>> THEN @ ELSE Tail(@),
                           !.envs = after_call(version, @),
                           !.frames = Tail(@)]
           parsed == IF line.t = "str" THEN int_of_str(line.v) ELSE Raised("TYPE")
       IN  IF version = 1 THEN Set(Push(m1, line))
           ELSE IF Head(ctl).kind = "inputi"
           THEN IF parsed.err # ""
                THEN Set(Error([M EXCEPT !.output = out, !.input = m1.input], "TYPE"))
                ELSE Set(Push(m1, parsed.value))
           ELSE IF version = 3 /\ line.t # "str"
           THEN Set(Error([M EXCEPT !.output = out, !.input = m1.input], "TYPE"))
           ELSE Set(Push(m1, line))

\* A FunctionCall.run of v3 that would refuse to end without a return statement
\* when the function is not void.
strict_returned(ver, fcall) ==
    IF ver = 1 THEN Ok(NIL)
    ELSE IF ver = 4 THEN Ok(fcall.return_value)
    ELSE IF fcall.return_type = "void" THEN Ok(NIL)
    ELSE IF ~fcall.hit_return THEN Raised("TYPE")
    ELSE IF ~fcall.has_variable THEN Raised("HOST")
    ELSE Ok(fcall.return_value)

\* The value FunctionCall.run hands back (Function.execute in v1 hands back
\* nothing).  v3: nothing for void, else the value of the return slot, which
\* is no Variable any more after a return without expression.
returned(ver, fcall) ==
    IF ver = 1 THEN Ok(NIL)
    ELSE IF ver = 4 THEN Ok(fcall.return_value)
    ELSE IF fcall.return_type = "void" THEN Ok(NIL)
    ELSE IF ~fcall.has_variable THEN Raised("HOST")
    ELSE Ok(fcall.return_value)

\* The end of FunctionCall.run
Ret ==
    /\ At("ret")
    /\ LET r == returned(version, frames[1])
       IN  IF r.err # "" THEN Set(Error(M, r.err))
           ELSE Set(Push([Continue(M, <<>>) EXCEPT !.envs = after_call(version, @),
                                                   !.frames = Tail(@)],
                         r.value))

----------------------------------------------------------------------------
(* CodeBlock.evaluate_statement (FunctionCall.evaluate_statement in v1) *)

StmtVarDef ==
    /\ At("stmt") /\ Head(ctl).s.k = "vardef"
    /\ LET d == declare_variable(version, defined_types, heap, envs[1],
                                 Head(ctl).s.name, Head(ctl).s.var_type)
       IN  IF d.err # "" THEN Set(Error(M, d.err))
           ELSE Set([Continue(M, <<>>) EXCEPT !.envs[1] = d.chain, !.heap = d.heap])

\* An ASSIGN_NODE case that would evaluate the expression at once in v4 too.
eager_assign_steps(ver, name, expression) ==
    <<Eval(expression), [op |-> "assign", name |-> name, lazy |-> FALSE, e |-> expression]>>

\* The ASSIGN_NODE case: v4 stores a LazyExpression over the current scope,
\* v1 and v3 evaluate the expression and store its value.
assign_steps(ver, name, expression) ==
    IF ver = 4 THEN <<[op |-> "assign", name |-> name, lazy |-> TRUE, e |-> expression]>>
    ELSE <<Eval(expression),
           [op |-> "assign", name |-> name, lazy |-> FALSE, e |-> expression]>>

StmtAssign ==
    /\ At("stmt") /\ Head(ctl).s.k = "="
    /\ Set(Continue(M, assign_steps(version, Head(ctl).s.name, Head(ctl).s.expression)))

\* scope.assign_variable(name, value)
Assign ==
    /\ At("assign")
    /\ LET c == Head(ctl)
           value == IF c.lazy THEN LazyExpression(envs[1], c.e) ELSE vals[Len(vals)]
           a == assign_variable(version, defined_types, heap, envs[1], c.name, value)
           m1 == IF c.lazy THEN Continue(M, <<>>) ELSE Pop(Continue(M, <<>>), 1)
       IN  IF a.err # "" THEN Set(Error(M, a.err))
           ELSE Set([m1 EXCEPT !.envs[1] = a.chain, !.heap = a.heap])

\* The FCALL_NODE case: the call is made and its value dropped.
StmtFcall ==
    /\ At("stmt") /\ Head(ctl).s.k = "fcall"
    /\ Set(Continue(M, <<[op |-> "fcall", e |-> Head(ctl).s], [op |-> "discard"]>>))

Discard ==
    /\ At("discard")
    /\ Set(Pop(Continue(M, <<>>), 1))

\* The IF_NODE case: the condition first.
StmtIf ==
    /\ At("stmt") /\ Head(ctl).s.k = "if" /\ "if" \in STATEMENT_NODES(version)
    /\ Set(Continue(M, <<Eval(Head(ctl).s.condition), [op |-> "if", s |-> Head(ctl).s]>>))

\* ... then the block the condition selects, if there is one.
IfBranch ==
    /\ At("if")
    /\ LET c == evaluate_condition(version, vals[Len(vals)])
           s == Head(ctl).s
       IN  IF c.err # "" THEN Set(Error(M, c.err))
           ELSE Set(Pop(Continue(M,
                    IF c.value.v THEN <<[op |-> "block", statements |-> s.statements]>>
                    ELSE IF s.else_statements # <<>>
                    THEN <<[op |-> "block", statements |-> s.else_statements]>>
                    ELSE <<>>), 1))

\* The FOR_NODE case: a CodeBlock for the loop, then CodeBlock.run_for, which
\* starts with the init statement.
StmtFor ==
    /\ At("stmt") /\ Head(ctl).s.k = "for" /\ "for" \in STATEMENT_NODES(version)
    /\ Set([Continue(M, <<Stmt(Head(ctl).s.init), [op |-> "for_cond", s |-> Head(ctl).s],
                          [op |-> "leave"]>>)
              EXCEPT !.envs[1] = child_scope(@)])

\* run_for: the loop condition is evaluated ...
ForCond ==
    /\ At("for_cond")
    /\ Set(Continue(M, <<Eval(Head(ctl).s.condition), [op |-> "for_test", s |-> Head(ctl).s]>>))

\* A loop whose body would run in the scope of the loop itself, iteration
\* after iteration.
shared_body_steps(s) ==
    <<[op |-> "run", statements |-> s.statements], [op |-> "for_after", s |-> s]>>

\* An iteration of run_for: the body runs as a CodeBlock of its own, with a
\* new scope, then the loop goes on.
body_steps(s) ==
    <<[op |-> "block", statements |-> s.statements], [op |-> "for_after", s |-> s]>>

\* ... and while it holds the body runs.
ForTest ==
    /\ At("for_test")
    /\ LET c == evaluate_condition(version, vals[Len(vals)])
           s == Head(ctl).s
       IN  IF c.err # "" THEN Set(Error(M, c.err))
           ELSE Set(Pop(Continue(M, IF c.value.v THEN body_steps(s) ELSE <<>>), 1))

\* What run_for does after the body: leave when the body returned, else the
\* update statement and the condition again.
after_body(hit_return, s) ==
    IF hit_return THEN <<>>
    ELSE <<Stmt(s.update), [op |-> "for_cond", s |-> s]>>

ForAfter ==
    /\ At("for_after")
    /\ Set(Continue(M, after_body(frames[1].hit_return, Head(ctl).s)))

\* assert(statement.elem_type in Interpreter.STATEMENT_NODES)
StmtInvalid ==
    /\ At("stmt")
    /\ Head(ctl).s.k \notin STATEMENT_NODES(version) \/ Head(ctl).s.k = "return"
    /\ Set(Error(M, "HOST"))

----------------------------------------------------------------------------
(* CodeBlock.__init__ and CodeBlock.run (the loop of FunctionCall.run in v1) *)

Block ==
    /\ At("block")
    /\ Set([Continue(M, <<[op |-> "run", statements |-> Head(ctl).statements],
                          [op |-> "leave"]>>)
              EXCEPT !.envs[1] = child_scope(@)])

\* The block is done: its scope is dropped.
Leave ==
    /\ At("leave")
    /\ Set([Continue(M, <<>>) EXCEPT !.envs[1] = Tail(@)])

\* One turn of the loop over the statements: a return statement is handled
\* here (v3, v4), any other goes to evaluate_statement.
RunStatement ==
    /\ At("run") /\ Head(ctl).statements # <<>>
    /\ LET s == Head(ctl).statements[1]
           rest == Tail(Head(ctl).statements)
       IN  IF version = 1 \/ s.k # "return"
           THEN Set(Continue(M, <<Stmt(s), [op |-> "check", statements |-> rest]>>))
           ELSE IF s.expression.k # "none"
           THEN IF version = 3 /\ frames[1].return_type = "void"
                THEN Set(Error(M, "TYPE"))
                ELSE Set(Continue(M, <<Eval(s.expression), [op |-> "return"]>>))
           ELSE Set([Continue(M, <<>>)
                       EXCEPT !.frames[1].return_value = NIL,
                              !.frames[1].has_variable = FALSE,
                              !.frames[1].hit_return = TRUE])

\* The loop over the statements ends.
RunEnd ==
    /\ At("run") /\ Head(ctl).statements = <<>>
    /\ Set(Continue(M, <<>>))

\* A loop over the statements that would not look at hit_return.
keep_running(hit_return, rest) == <<[op |-> "run", statements |-> rest]>>

\* What the loop does after a statement: break when the call has returned.
after_statement(hit_return, rest) ==
    IF hit_return THEN <<>> ELSE <<[op |-> "run", statements |-> rest]>>

Check ==
    /\ At("check")
    /\ Set(Continue(M, after_statement(frames[1].hit_return, Head(ctl).statements)))

\* A return that would store the value as it is, whatever the declared type.
keep_return(ver, types, hp, fcall, value) ==
    [err |-> "", heap |-> hp,
     fcall |-> [fcall EXCEPT !.return_value = value, !.hit_return = TRUE]]

\* The value of a return statement is stored: v3 assigns it to the return
\* slot (coercion, type check), v4 keeps it as it is.
store_return(ver, types, hp, fcall, value) ==
    IF ver = 3
    THEN LET a == Variable_assign(3, types, hp,
                                  Variable(fcall.return_type, fcall.return_value), value)
         IN  IF a.err # "" THEN a
             ELSE [err |-> "", heap |-> a.heap,
                   fcall |-> [fcall EXCEPT !.return_value = a.variable.value,
                                           !.hit_return = TRUE]]
    ELSE [err |-> "", heap |-> hp,
          fcall |-> [fcall EXCEPT !.return_value = value, !.hit_return = TRUE]]

Return ==
    /\ At("return")
    /\ LET r == store_return(version, defined_types, heap, frames[1], vals[Len(vals)])
       IN  IF r.err # "" THEN Set(Error(M, r.err))
           ELSE Set([Pop(Continue(M, <<>>), 1) EXCEPT !.frames[1] = r.fcall, !.heap = r.heap])

----------------------------------------------------------------------------

Next ==
    \/ Start \/ Finish
    \/ EvalVal \/ EvalVar \/ Force \/ Memo \/ EvalBinary \/ ApplyBinary
    \/ EvalUnary \/ ApplyUnary \/ EvalFcall \/ EvalNew \/ EvalInvalid
    \/ Fcall \/ Call \/ PrintCall \/ InputCall \/ Ret
    \/ StmtVarDef \/ StmtAssign \/ Assign \/ StmtFcall \/ Discard
    \/ StmtIf \/ IfBranch \/ StmtFor \/ ForCond \/ ForTest \/ ForAfter \/ StmtInvalid
    \/ Block \/ Leave \/ RunStatement \/ RunEnd \/ Check \/ Return

----------------------------------------------------------------------------
(* The programs the interpreter is run on. *)

MaxReads == 3
MaxDiv == 3

\* struct P { n:int; }
StructP == StructDef("P", <<Arg("n", "int")>>)

\* func f() { print("m"); return 1; }
f_marker == Func("f", <<>>, "int", <<Say("m"), ReturnNode(IntNode(1))>>)

\* The ways the memo programs use x after x = f().
ReadStmt(i) ==
    CASE i = 1 -> PrintNode(<<Var("x")>>)
      [] i = 2 -> AssignNode("y", Bin("+", Var("x"), IntNode(1)))
      [] i = 3 -> PrintNode(<<Var("y")>>)
      [] i = 4 -> IfNode(Bin("==", Var("x"), IntNode(1)),
                         <<PrintNode(<<Bin("+", Var("x"), Var("x"))>>)>>, <<>>)

ReadKinds == 1..4

\* func main() { var x; var y; x = f(); <reads> }
MemoProgram(reads) ==
    Program(4, "memo", [reads |-> reads], <<>>,
        <<f_marker,
          Main(<<VarDef("x", "int"), VarDef("y", "int"),
                 AssignNode("x", FcallNode("f", <<>>))>>
               \o [i \in 1..Len(reads) |-> ReadStmt(reads[i])])>>,
        <<>>)

\* func side() { print("arg"); return 1; }
\* func ignore(p) { print("in"); return 0; }   func use(p) { print("in"); return p; }
\* func main() { var r; callee(side()); print("end"); }  or  r = callee(side()); print(r);
LazyArgProgram(callee, as_statement) ==
    Program(4, "lazyarg", [callee |-> callee, as_statement |-> as_statement], <<>>,
        <<Func("side", <<>>, "int", <<Say("arg"), ReturnNode(IntNode(1))>>),
          Func("ignore", <<Arg("p", "int")>>, "int", <<Say("in"), ReturnNode(IntNode(0))>>),
          Func("use", <<Arg("p", "int")>>, "int", <<Say("in"), ReturnNode(Var("p"))>>),
          Main(<<VarDef("r", "int")>>
               \o (IF as_statement
                   THEN <<FcallNode(callee, <<FcallNode("side", <<>>)>>), Say("end")>>
                   ELSE <<AssignNode("r", FcallNode(callee, <<FcallNode("side", <<>>)>>)),
                          PrintNode(<<Var("r")>>)>>))>>,
        <<>>)

\* v3: func f():T { print("body"); }  with or without a return that is not
\* reached;  func main():void { var r:T; r = f(); print(r); }
NoReturnProgram(return_type, guarded) ==
    Program(3, "noreturn", [return_type |-> return_type, guarded |-> guarded],
        <<StructP>>,
        <<Func("f", <<>>, return_type,
               (IF guarded
                THEN <<VarDef("v", return_type),
                       IfNode(BoolNode(FALSE), <<ReturnNode(Var("v"))>>, <<>>)>>
                ELSE <<>>)
               \o <<Say("body")>>),
          Main(<<VarDef("r", return_type), AssignNode("r", FcallNode("f", <<>>)),
                 PrintNode(<<Var("r")>>)>>)>>,
        <<>>)

\* func main() { print(a / b); }
DivProgram(ver, a, b) ==
    Program(ver, "div", [a |-> a, b |-> b], <<>>,
        <<Main(<<PrintNode(<<Bin("/", Lit(a), Lit(b))>>)>>)>>, <<>>)

\* How a struct variable comes to hold NIL: by its declaration, by n = nil,
\* or by n = c with c a NIL reference.
NilWays == {"default", "nil", "copy"}

NilStmts(name, way) ==
    CASE way = "default" -> <<>>
      [] way = "nil" -> <<AssignNode(name, Nil)>>
      [] way = "copy" -> <<AssignNode(name, Var("c"))>>

\* v3: func main():void { var a:P; var b:P; var c:P; ...; print(a == b); print(a != b); }
NilEqProgram(way_a, way_b) ==
    Program(3, "nileq", [way_a |-> way_a, way_b |-> way_b], <<StructP>>,
        <<Main(<<VarDef("a", "P"), VarDef("b", "P"), VarDef("c", "P")>>
               \o NilStmts("a", way_a) \o NilStmts("b", way_b)
               \o <<PrintNode(<<Bin("==", Var("a"), Var("b"))>>),
                    PrintNode(<<Bin("!=", Var("a"), Var("b"))>>)>>)>>,
        <<>>)

MaxVal == 2

\* func foo() { ... }  func main() { var x; x = 5; foo(); ... }: foo reads x,
\* assigns x, or declares an x of its own.
\* func rec(n) { if (n > 0) { rec(n - 1); } print(n); }  func main() { rec(MaxVal); }
ScopeProgram(ver, variant) ==
    Program(ver, "scope", [variant |-> variant], <<>>,
        IF variant = "recurse"
        THEN <<Func("rec", <<Arg("n", "int")>>, "void",
                    <<IfNode(Bin(">", Var("n"), IntNode(0)),
                             <<FcallNode("rec", <<Bin("-", Var("n"), IntNode(1))>>)>>, <<>>),
                      PrintNode(<<Var("n")>>)>>),
               Main(<<FcallNode("rec", <<IntNode(MaxVal)>>)>>)>>
        ELSE <<Func("foo", <<>>, "void",
                    CASE variant = "read" -> <<PrintNode(<<Var("x")>>)>>
                      [] variant = "assign" -> <<AssignNode("x", IntNode(7))>>
                      [] variant = "shadow" -> <<VarDef("x", "int"), AssignNode("x", IntNode(7)),
                                                 PrintNode(<<Var("x")>>)>>),
               Main(<<VarDef("x", "int"), AssignNode("x", IntNode(5)),
                      FcallNode("foo", <<>>), PrintNode(<<Var("x")>>)>>)>>,
        <<>>)

\* func bar(x) { print("bar:", x); return x; }  (the source writes the label
\* "bar: "; the lines are named bar:k in the specification)
bar == Func("bar", <<Arg("x", "int")>>, "int",
            <<PrintNode(<<StrNode("bar:"), Var("x")>>), ReturnNode(Var("x"))>>)

\* The test program of main() in interpreterv4.py.
LazyDemo ==
    Program(4, "demo", [n |-> 3], <<>>,
        <<bar,
          Main(<<VarDef("a", "int"),
                 AssignNode("a", FcallNode("bar", <<IntNode(0)>>)),
                 AssignNode("a", Bin("+", Var("a"), FcallNode("bar", <<IntNode(1)>>))),
                 AssignNode("a", Bin("+", Var("a"), FcallNode("bar", <<IntNode(2)>>))),
                 AssignNode("a", Bin("+", Var("a"), FcallNode("bar", <<IntNode(3)>>))),
                 Say("---"), PrintNode(<<Var("a")>>),
                 Say("---"), PrintNode(<<Var("a")>>)>>)>>,
        <<>>)

\* The expressions the defer programs bind x to.
DeferKinds == {"call", "inputi", "prompt", "inputs", "print", "captured"}

DeferExpression(kind) ==
    CASE kind = "call" -> FcallNode("f", <<>>)
      [] kind = "inputi" -> FcallNode("inputi", <<>>)
      [] kind = "prompt" -> FcallNode("inputi", <<StrNode("p")>>)
      [] kind = "inputs" -> FcallNode("inputs", <<>>)
      [] kind = "print" -> Say("s")
      [] kind = "captured" -> Bin("+", Var("z"), FcallNode("f", <<>>))

\* func main() { var x; var z; z = 1; x = e; print("bound"); z = 2; print(x); print(x); }
DeferProgram(kind) ==
    Program(4, "defer", [kind |-> kind], <<>>,
        <<f_marker,
          Main(<<VarDef("x", "int"), VarDef("z", "int"), AssignNode("z", IntNode(1)),
                 AssignNode("x", DeferExpression(kind)), Say("bound"),
                 AssignNode("z", IntNode(2)),
                 PrintNode(<<Var("x")>>), PrintNode(<<Var("x")>>)>>)>>,
        <<"7">>)

CaptureWhens == {"before", "after", "both", "nested"}

\* func main() { var x; var y; x = a; y = x + 1; [x = b;] print(y); [x = b + 1;]
\*               print(y); print(x); }
\* nested: y = x + 1; x = b; print(y); are in the block of an if (true).
CaptureProgram(a, b, when) ==
    LET bind == AssignNode("y", Bin("+", Var("x"), IntNode(1)))
        first == AssignNode("x", IntNode(b))
        second == AssignNode("x", IntNode(b + 1))
        read == PrintNode(<<Var("y")>>)
    IN  Program(4, "capture", [a |-> a, b |-> b, when |-> when], <<>>,
            <<Main(<<VarDef("x", "int"), VarDef("y", "int"), AssignNode("x", IntNode(a))>>
                   \o (CASE when = "before" -> <<bind, first, read>>
                         [] when = "after" -> <<bind, read, second>>
                         [] when = "both" -> <<bind, first, read, second>>
                         [] when = "nested" ->
                              <<IfNode(BoolNode(TRUE), <<bind, first, read>>, <<>>), second>>)
                   \o <<read, PrintNode(<<Var("x")>>)>>)>>,
            <<>>)

ReturnShapes == {"if", "else", "for", "forfor"}

counted_for(name, statements) ==
    ForNode(AssignNode(name, IntNode(0)), Bin("<", Var(name), IntNode(2)),
            AssignNode(name, Bin("+", Var(name), IntNode(1))), statements)

\* func f(n:int):int { var i:int; var j:int; <shape>; print("c"); return 99; }
\* func main():void { var r:int; r = f(n); print(r); }
\* The shape holds  return 10 + ...; print("a");  under an if, an else, a for
\* or a for in a for, taken or not as n says.
ReturnBody(shape) ==
    CASE shape = "if" ->
           <<IfNode(Bin("<", Var("n"), IntNode(2)),
                    <<ReturnNode(Bin("+", IntNode(10), Var("n"))), Say("a")>>, <<>>)>>
      [] shape = "else" ->
           <<IfNode(Bin("<", Var("n"), IntNode(1)), <<Say("t")>>,
                    <<ReturnNode(Bin("+", IntNode(10), Var("n"))), Say("a")>>)>>
      [] shape = "for" ->
           <<counted_for("i",
               <<IfNode(Bin("==", Var("i"), Var("n")),
                        <<ReturnNode(Bin("+", IntNode(10), Var("i"))), Say("a")>>, <<>>),
                 Say("b")>>)>>
      [] shape = "forfor" ->
           <<counted_for("i",
               <<counted_for("j",
                   <<IfNode(Bin("==", Var("j"), Var("n")),
                            <<ReturnNode(Bin("+", IntNode(10), Var("j"))), Say("a")>>, <<>>),
                     Say("b")>>),
                 Say("d")>>)>>

ReturnProgram(ver, shape, n) ==
    Program(ver, "return", [shape |-> shape, n |-> n], <<>>,
        <<Func("f", <<Arg("n", "int")>>, "int",
               <<VarDef("i", "int"), VarDef("j", "int")>> \o ReturnBody(shape)
               \o <<Say("c"), ReturnNode(IntNode(99))>>),
          Main(<<VarDef("r", "int"), AssignNode("r", FcallNode("f", <<IntNode(n)>>)),
                 PrintNode(<<Var("r")>>)>>)>>,
        <<>>)

\* v3: struct P;  func main():void { var p:P; p = new P; p.n = 5; print(p.n); print(p == nil); }
\* v1: func main() { var x; x = inputi("?") + 1; print(x); x = -x; }
\* v1: func main() { var x; x = 1; if (x) { print(x); } }
OtherProgram(i) ==
    CASE i = 1 ->
           Program(3, "other", [i |-> i], <<StructP>>,
               <<Main(<<VarDef("p", "P"), AssignNode("p", New("P")),
                        AssignNode("p.n", IntNode(5)), PrintNode(<<Var("p.n")>>),
                        PrintNode(<<Bin("==", Var("p"), Nil)>>)>>)>>, <<>>)
      [] i = 2 ->
           Program(1, "other", [i |-> i], <<>>,
               <<Main(<<VarDef("x", "int"),
                        AssignNode("x", Bin("+", FcallNode("inputi", <<StrNode("?")>>),
                                            IntNode(1))),
                        PrintNode(<<Var("x")>>),
                        AssignNode("x", Un("neg", Var("x")))>>)>>, <<"4">>)
      [] i = 3 ->
           Program(1, "other", [i |-> i], <<>>,
               <<Main(<<VarDef("x", "int"), AssignNode("x", IntNode(1)),
                        IfNode(Var("x"), <<PrintNode(<<Var("x")>>)>>, <<>>)>>)>>, <<>>)

\* struct Q { p:P; }
StructQ == StructDef("Q", <<Arg("p", "P")>>)

\* A block nested in the running one: an if block (v3, v4), or the body of a
\* function the program calls (v1, where a call's scope hangs on the caller's).
Nested(ver, fname, statements) ==
    IF ver = 1 THEN FcallNode(fname, <<>>)
    ELSE IfNode(BoolNode(TRUE), statements, <<>>)

NestedFuncs(ver, outer, inner) ==
    IF ver = 1 THEN <<Func("outer", <<>>, "void", outer), Func("inner", <<>>, "void", inner)>>
    ELSE <<>>

AssignVariants == {"inner", "outer", "undeclared"}

\* func main() { var x; x = 1; { [var x; x = 2;] { x = 3; print(x); } print(x); } print(x); }
\* with "undeclared" assigning y in place of x in the innermost block.
AssignProgram(ver, variant) ==
    LET target == IF variant = "undeclared" THEN "y" ELSE "x"
        inner == <<AssignNode(target, IntNode(3)), PrintNode(<<Var("x")>>)>>
        outer == (IF variant = "inner"
                  THEN <<VarDef("x", "int"), AssignNode("x", IntNode(2))>> ELSE <<>>)
                 \o <<Nested(ver, "inner", inner), PrintNode(<<Var("x")>>)>>
    IN  Program(ver, "assign", [variant |-> variant], <<>>,
            NestedFuncs(ver, outer, inner)
            \o <<Main(<<VarDef("x", "int"), AssignNode("x", IntNode(1)),
                        Nested(ver, "outer", outer), PrintNode(<<Var("x")>>)>>)>>,
            <<>>)

\* The declared types and the assigned expressions of the typed assignments.
CellTypes == {"int", "string", "bool", "P", "Q"}

ValueKinds == {"int", "zero", "string", "bool", "nil", "P", "Q"}

ValueNode(kind) ==
    CASE kind = "int" -> IntNode(5)
      [] kind = "zero" -> IntNode(0)
      [] kind = "string" -> StrNode("s")
      [] kind = "bool" -> BoolNode(TRUE)
      [] kind = "nil" -> Nil
      [] OTHER -> New(kind)

\* v3: func main():void { var x:T; x = <value>; print("ok"); }
TypedAssignProgram(var_type, kind) ==
    Program(3, "typed", [var_type |-> var_type, kind |-> kind], <<StructP, StructQ>>,
        <<Main(<<VarDef("x", var_type), AssignNode("x", ValueNode(kind)), Say("ok")>>)>>,
        <<>>)

ShadowBlocks == {"if", "else", "for"}

\* A block statement of the given kind around the statements; the for block
\* runs its body twice.
BlockOf(kind, statements) ==
    CASE kind = "if" -> IfNode(BoolNode(TRUE), statements, <<>>)
      [] kind = "else" -> IfNode(BoolNode(FALSE), <<>>, statements)
      [] kind = "for" -> counted_for("i", statements)

\* func main() { var i; var x; x = a;
\*               <block> { var x; x = b; print(x); x = x + 1; print(x); }  print(x); }
ShadowProgram(ver, kind, a, b) ==
    Program(ver, "shadow", [kind |-> kind, a |-> a, b |-> b], <<>>,
        <<Main(<<VarDef("i", "int"), VarDef("x", "int"), AssignNode("x", IntNode(a)),
                 BlockOf(kind, <<VarDef("x", "int"), AssignNode("x", IntNode(b)),
                                 PrintNode(<<Var("x")>>),
                                 AssignNode("x", Bin("+", Var("x"), IntNode(1))),
                                 PrintNode(<<Var("x")>>)>>),
                 PrintNode(<<Var("x")>>)>>)>>,
        <<>>)

\* func main() { var i; print("a"); var x; var x; print("b"); }  with the two
\* declarations in the function body ("body") or in a block of the given kind.
TwiceProgram(ver, kind) ==
    LET twice == <<Say("a"), VarDef("x", "int"), VarDef("x", "int"), Say("b")>>
    IN  Program(ver, "twice", [kind |-> kind], <<>>,
            <<Main(IF kind = "body" THEN twice
                   ELSE <<VarDef("i", "int"), VarDef("x", "int"), BlockOf(kind, twice)>>)>>,
            <<>>)

OperandKinds == {"int", "bool", "string"}

Operators == {"+", "-", "*", "/", "==", "!=", "<", "<=", ">", ">=", "&&", "||"}

\* The value an operand function returns: one that would let && and || stop
\* at the left operand (false or 0 for &&, true or 1 for ||).
OperandNode(k, kind) ==
    CASE kind = "int" -> IntNode(IF k = "&&" THEN 0 ELSE 1)
      [] kind = "bool" -> BoolNode(k # "&&")
      [] kind = "string" -> StrNode("s")

\* func l():T { print("L"); return <left>; }  func r():U { print("R"); return <right>; }
\* func main():void { print(l() <k> r()); }
OrderProgram(ver, k, left, right) ==
    Program(ver, "order", [k |-> k, left |-> left, right |-> right], <<>>,
        <<Func("l", <<>>, left, <<Say("L"), ReturnNode(OperandNode(k, left))>>),
          Func("r", <<>>, right, <<Say("R"), ReturnNode(OperandNode(k, right))>>),
          Main(<<PrintNode(<<Bin(k, FcallNode("l", <<>>), FcallNode("r", <<>>))>>)>>)>>,
        <<>>)

MaxArgs == 2

Callees == {"inputi", "inputs", "print", "foo", "g"}

\* func t():int { print("e"); return 1; }
t_marker == Func("t", <<>>, "int", <<Say("e"), ReturnNode(IntNode(1))>>)

\* An argument: a call of t where a call can be an argument (v3, v4), the
\* literal 1 in v1.
ArgNode(ver) == IF ver = 1 THEN IntNode(1) ELSE FcallNode("t", <<>>)

\* func foo(a:int):void { print("in"); }
\* func main():void { <callee>(<argc arguments>); }   or   print(<callee>(...));
\* with the line 4 on standard input; no function g is defined.
ArityProgram(ver, callee, argc, as_statement) ==
    LET call == FcallNode(callee, [i \in 1..argc |-> ArgNode(ver)])
    IN  Program(ver, "arity",
            [callee |-> callee, argc |-> argc, as_statement |-> as_statement], <<>>,
            <<t_marker, Func("foo", <<Arg("a", "int")>>, "void", <<Say("in")>>),
              Main(<<IF as_statement THEN call ELSE PrintNode(<<call>>)>>)>>,
            <<"4">>)

\* How a struct variable x of type T comes to its value: left as declared,
\* assigned nil, or assigned new T.
HoldWays == {"default", "nil", "new"}

\* v3: func main():void { var x:T; ...; print(x == nil); print(nil == x);
\*                        print(x != nil); print(nil != x); }
NilTestProgram(struct_type, way) ==
    Program(3, "niltest", [struct_type |-> struct_type, way |-> way], <<StructP, StructQ>>,
        <<Main(<<VarDef("x", struct_type)>>
               \o (CASE way = "default" -> <<>>
                     [] way = "nil" -> <<AssignNode("x", Nil)>>
                     [] way = "new" -> <<AssignNode("x", New(struct_type))>>)
               \o <<PrintNode(<<Bin("==", Var("x"), Nil)>>),
                    PrintNode(<<Bin("==", Nil, Var("x"))>>),
                    PrintNode(<<Bin("!=", Var("x"), Nil)>>),
                    PrintNode(<<Bin("!=", Nil, Var("x"))>>)>>)>>,
        <<>>)

\* v3: func main():void { var a:P; var b:P; a = new P; a.n = n; b = new P | b = a;
\*                        b.n = m; print(a == b); print(a != b); print(b == a); }
SameProgram(alias, n, m) ==
    Program(3, "same", [alias |-> alias, n |-> n, m |-> m], <<StructP>>,
        <<Main(<<VarDef("a", "P"), VarDef("b", "P"),
                 AssignNode("a", New("P")), AssignNode("a.n", IntNode(n)),
                 AssignNode("b", IF alias THEN Var("a") ELSE New("P")),
                 AssignNode("b.n", IntNode(m)),
                 PrintNode(<<Bin("==", Var("a"), Var("b"))>>),
                 PrintNode(<<Bin("!=", Var("a"), Var("b"))>>),
                 PrintNode(<<Bin("==", Var("b"), Var("a"))>>)>>)>>,
        <<>>)

\* What a P reference is compared with: an int, a string, a bool, a live Q
\* or the NIL reference of type Q.
OtherKinds == {"int", "string", "bool", "Q", "nilQ"}

\* v3: func main():void { var p:P; var q:Q; [p = new P;] [q = new Q;]
\*                        print(p <k> other); }   or   print(other <k> p);
MixedProgram(live, other, k, struct_left) ==
    LET o == IF other \in {"Q", "nilQ"} THEN Var("q") ELSE ValueNode(other)
    IN  Program(3, "mixed",
            [live |-> live, other |-> other, k |-> k, struct_left |-> struct_left],
            <<StructP, StructQ>>,
            <<Main(<<VarDef("p", "P"), VarDef("q", "Q")>>
                   \o (IF live THEN <<AssignNode("p", New("P"))>> ELSE <<>>)
                   \o (IF other = "Q" THEN <<AssignNode("q", New("Q"))>> ELSE <<>>)
                   \o <<PrintNode(<<IF struct_left THEN Bin(k, Var("p"), o)
                                    ELSE Bin(k, o, Var("p"))>>)>>)>>,
            <<>>)

\* Where the path of a fault program meets NIL: at p (path p.n), at a (path
\* a.p.n), at a.p (path a.p.n, a live), or nowhere.
NilHops == {"p", "a", "a.p", "none"}

\* v3: func main():void { var p:P; var a:Q; [a = new Q;] [a.p = new P;] [... = nil;]
\*                        print("s"); <path> = 1; | print(<path>);  print("t"); }
FaultProgram(hop, explicit, write) ==
    LET path == IF hop = "p" THEN "p.n" ELSE "a.p.n"
    IN  Program(3, "fault", [hop |-> hop, explicit |-> explicit, write |-> write],
            <<StructP, StructQ>>,
            <<Main(<<VarDef("p", "P"), VarDef("a", "Q")>>
                   \o (IF hop \in {"a.p", "none"} THEN <<AssignNode("a", New("Q"))>> ELSE <<>>)
                   \o (IF hop = "none" THEN <<AssignNode("a.p", New("P"))>> ELSE <<>>)
                   \o (IF explicit /\ hop # "none" THEN <<AssignNode(hop, Nil)>> ELSE <<>>)
                   \o <<Say("s"),
                        IF write THEN AssignNode(path, IntNode(1))
                        ELSE PrintNode(<<Var(path)>>),
                        Say("t")>>)>>,
            <<>>)

\* How a second reference to the instance of p is made.
AliasWays == {"assign", "arg", "return", "field"}

\* func set(s:P, v:int):void { s.n = v; }   func id(s:P):P { return s; }
\* v3: func main():void { var p:P; var q:P; var a:Q; p = new P;
\*   assign:  q = p;               q.n = v + 1;   print(p.n); p.n = v + 2; print(q.n);
\*   arg:     set(p, v + 1);                      print(p.n); p.n = v + 2; print(p.n);
\*   return:  q = id(p);           q.n = v + 1;   print(p.n); p.n = v + 2; print(q.n);
\*   field:   a = new Q; a.p = p;  a.p.n = v + 1; print(p.n); p.n = v + 2; print(a.p.n); }
AliasProgram(way, v) ==
    LET other == CASE way = "arg" -> "p.n" [] way = "field" -> "a.p.n" [] OTHER -> "q.n"
    IN  Program(3, "alias", [way |-> way, v |-> v], <<StructP, StructQ>>,
            <<Func("set", <<Arg("s", "P"), Arg("v", "int")>>, "void",
                   <<AssignNode("s.n", Var("v"))>>),
              Func("id", <<Arg("s", "P")>>, "P", <<ReturnNode(Var("s"))>>),
              Main(<<VarDef("p", "P"), VarDef("q", "P"), VarDef("a", "Q"),
                     AssignNode("p", New("P"))>>
                   \o (CASE way = "assign" ->
                              <<AssignNode("q", Var("p")), AssignNode("q.n", IntNode(v + 1))>>
                         [] way = "arg" ->
                              <<FcallNode("set", <<Var("p"), IntNode(v + 1)>>)>>
                         [] way = "return" ->
                              <<AssignNode("q", FcallNode("id", <<Var("p")>>)),
                                AssignNode("q.n", IntNode(v + 1))>>
                         [] way = "field" ->
                              <<AssignNode("a", New("Q")), AssignNode("a.p", Var("p")),
                                AssignNode("a.p.n", IntNode(v + 1))>>)
                   \o <<PrintNode(<<Var("p.n")>>), AssignNode("p.n", IntNode(v + 2)),
                        PrintNode(<<Var(other)>>)>>)>>,
            <<>>)

\* The definitions of the type programs: a function f with a parameter or a
\* return type Z that no struct declares, a struct with a field of a struct
\* declared after it, of an undeclared type or of its own type, and a struct
\* declared twice.
TypeVariants == {"param", "return", "forward", "unknown", "own", "twice", "fine"}

\* v3: [struct ...]  func f(a:int|Z):int|Z { print("f"); }
\*     func main():void { print("ok"); [f(1);] }
TypeProgram(variant, called) ==
    Program(3, "types", [variant |-> variant, called |-> called],
        CASE variant = "forward" -> <<StructQ, StructP>>
          [] variant = "unknown" -> <<StructDef("A", <<Arg("z", "Z")>>)>>
          [] variant = "own" -> <<StructDef("A", <<Arg("next", "A")>>)>>
          [] variant = "twice" -> <<StructP, StructP>>
          [] OTHER -> <<StructP>>,
        <<Func("f", <<Arg("a", IF variant = "param" THEN "Z" ELSE "int")>>,
               IF variant = "return" THEN "Z" ELSE "int", <<Say("f")>>),
          Main(<<Say("ok")>>
               \o (IF called THEN <<FcallNode("f", <<IntNode(1)>>)>> ELSE <<>>))>>,
        <<>>)

\* Where a value meets a bool: an assignment to a bool variable, an if or a
\* for condition, an operand of && (left or right), of || or of !; and, to
\* compare, an assignment to an int variable.
CoerceSites == {"assign", "if", "for", "and", "dna", "or", "not", "intcell"}

CoerceKinds == {"int", "zero", "string", "bool", "nil"}

\* The declared type a value of the kind can be stored under.
KindType(kind) ==
    CASE kind \in {"int", "zero"} -> "int"
      [] kind = "string" -> "string"
      [] kind = "bool" -> "bool"
      [] kind = "nil" -> "P"

\* v3: func main():void { var b:bool; var n:int; var c:T; c = <value>; print("s"); ... }
\*   assign:  b = c; print(b);              intcell:  n = c; print(n);
\*   if:      if (c) { print("t"); } else { print("e"); }
\*   for:     for (n = 0; c; c = c2) { print("t"); }      with c2 declared, never assigned
\*   and:     print(c && true);   dna:  print(true && c);
\*   or:      print(c || false);  not:  print(!c);
CoerceProgram(site, kind) ==
    LET c == Var("c")
    IN  Program(3, "coerce", [site |-> site, kind |-> kind], <<StructP>>,
            <<Main(<<VarDef("b", "bool"), VarDef("n", "int"),
                     VarDef("c", KindType(kind)), VarDef("c2", KindType(kind)),
                     AssignNode("c", ValueNode(kind)), Say("s")>>
                   \o (CASE site = "assign" -> <<AssignNode("b", c), PrintNode(<<Var("b")>>)>>
                         [] site = "intcell" -> <<AssignNode("n", c), PrintNode(<<Var("n")>>)>>
                         [] site = "if" -> <<IfNode(c, <<Say("t")>>, <<Say("e")>>)>>
                         [] site = "for" ->
                              <<ForNode(AssignNode("n", IntNode(0)), c,
                                        AssignNode("c", Var("c2")), <<Say("t")>>)>>
                         [] site = "and" -> <<PrintNode(<<Bin("&&", c, BoolNode(TRUE))>>)>>
                         [] site = "dna" -> <<PrintNode(<<Bin("&&", BoolNode(TRUE), c)>>)>>
                         [] site = "or" -> <<PrintNode(<<Bin("||", c, BoolNode(FALSE))>>)>>
                         [] site = "not" -> <<PrintNode(<<Un("!", c)>>)>>))>>,
            <<>>)

\* The functions of the main programs next to foo: none, a main with one
\* parameter, a main without parameters, or both (the one without last).
MainVariants == {"none", "param", "main", "both"}

\* func foo() { print("f"); inputi(); }
\* [func main(a:int):void { print("p"); inputi(); }]  [func main():void { print("m"); }]
MainProgram(ver, variant) ==
    LET reads == FcallNode("inputi", <<>>)
    IN  Program(ver, "main", [variant |-> variant], <<>>,
            <<Func("foo", <<>>, "void", <<Say("f"), reads>>)>>
            \o (IF variant \in {"param", "both"}
                THEN <<Func("main", <<Arg("a", "int")>>, "void", <<Say("p"), reads>>)>>
                ELSE <<>>)
            \o (IF variant \in {"main", "both"} THEN <<Main(<<Say("m")>>)>> ELSE <<>>),
            <<"4">>)

\* The declared return types and the return statements of the yield programs:
\* a return of a value of each kind, or a return without expression.
ReturnTypes == CellTypes \cup {"void"}

ReturnKinds == ValueKinds \cup {"bare"}

\* v3: func f():T { print("in"); return <value>; }   (or  return;)
\* func main():void { print(f()); }   for T a primitive type,
\*                  { print(f() == nil); }   for T a struct type,
\*                  { f(); print("end"); }   for T void.
YieldProgram(return_type, kind) ==
    LET call == FcallNode("f", <<>>)
    IN  Program(3, "yield", [return_type |-> return_type, kind |-> kind],
            <<StructP, StructQ>>,
            <<Func("f", <<>>, return_type,
                   <<Say("in"),
                     ReturnNode(IF kind = "bare" THEN NoExpression ELSE ValueNode(kind))>>),
              Main(CASE return_type = "void" -> <<call, Say("end")>>
                     [] return_type \in primitive_types -> <<PrintNode(<<call>>)>>
                     [] OTHER -> <<PrintNode(<<Bin("==", call, Nil)>>)>>)>>,
            <<>>)

\* What the loop programs do with t, the variable their loop body declares.
LoopVariants == {"plain", "condition", "update", "after", "string"}

\* func main() { var i; for (i = 0; i < 2; i = i + 1) { var t; print(t); t = i + 7; print(t); }
\*               print("end"); }
\* or with t < 2 or "s" as condition, i = t + 1 as update, print(t) after the loop.
LoopProgram(ver, variant) ==
    Program(ver, "loop", [variant |-> variant], <<>>,
        <<Main(<<VarDef("i", "int"),
                 ForNode(AssignNode("i", IntNode(0)),
                         CASE variant = "condition" -> Bin("<", Var("t"), IntNode(2))
                           [] variant = "string" -> StrNode("s")
                           [] OTHER -> Bin("<", Var("i"), IntNode(2)),
                         AssignNode("i", Bin("+", Var(IF variant = "update" THEN "t" ELSE "i"),
                                             IntNode(1))),
                         <<VarDef("t", "int"), PrintNode(<<Var("t")>>),
                           AssignNode("t", Bin("+", Var("i"), IntNode(7))),
                           PrintNode(<<Var("t")>>)>>)>>
               \o (IF variant = "after" THEN <<PrintNode(<<Var("t")>>)>> ELSE <<>>)
               \o <<Say("end")>>)>>,
        <<>>)

MaxChain == 3

\* func main() { var a; a = a0;  a = a + 1; (n times)  print(a); print(a); }
ChainProgram(a0, n) ==
    Program(4, "chain", [a0 |-> a0, n |-> n], <<>>,
        <<Main(<<VarDef("a", "int"), AssignNode("a", IntNode(a0))>>
               \o [i \in 1..n |-> AssignNode("a", Bin("+", Var("a"), IntNode(1)))]
               \o <<PrintNode(<<Var("a")>>), PrintNode(<<Var("a")>>)>>)>>,
        <<>>)

ReadSequences == UNION {[1..n -> ReadKinds] : n \in 0..MaxReads}

Init ==
    /\ \/ \E reads \in ReadSequences : prog = MemoProgram(reads)
       \/ \E callee \in {"ignore", "use"}, as_statement \in BOOLEAN :
            prog = LazyArgProgram(callee, as_statement)
       \/ \E return_type \in {"int", "string", "bool", "P"}, guarded \in BOOLEAN :
            prog = NoReturnProgram(return_type, guarded)
       \/ \E ver \in {3, 4}, a \in -MaxDiv..MaxDiv, b \in -MaxDiv..MaxDiv :
            prog = DivProgram(ver, a, b)
       \/ \E way_a \in NilWays, way_b \in NilWays : prog = NilEqProgram(way_a, way_b)
       \/ \E ver \in {1, 3, 4}, variant \in {"read", "assign", "shadow"} :
            prog = ScopeProgram(ver, variant)
       \/ \E ver \in {3, 4} : prog = ScopeProgram(ver, "recurse")
       \/ prog = LazyDemo
       \/ \E kind \in DeferKinds : prog = DeferProgram(kind)
       \/ \E a \in 0..MaxVal, b \in 0..MaxVal, when \in CaptureWhens :
            prog = CaptureProgram(a, b, when)
       \/ \E ver \in {3, 4}, shape \in ReturnShapes, n \in 0..MaxVal :
            prog = ReturnProgram(ver, shape, n)
       \/ \E i \in 1..3 : prog = OtherProgram(i)
       \/ \E ver \in {1, 3, 4}, variant \in AssignVariants : prog = AssignProgram(ver, variant)
       \/ \E var_type \in CellTypes, kind \in ValueKinds :
            prog = TypedAssignProgram(var_type, kind)
       \/ \E ver \in {3, 4}, kind \in ShadowBlocks, a \in 0..MaxVal, b \in 0..MaxVal :
            prog = ShadowProgram(ver, kind, a, b)
       \/ \E ver \in {3, 4}, kind \in ShadowBlocks : prog = TwiceProgram(ver, kind)
       \/ \E ver \in {1, 3, 4} : prog = TwiceProgram(ver, "body")
       \/ \E ver \in {3, 4}, k \in Operators, left \in OperandKinds, right \in OperandKinds :
            prog = OrderProgram(ver, k, left, right)
       \/ \E ver \in {1, 3, 4}, callee \in Callees, argc \in 0..MaxArgs :
            prog = ArityProgram(ver, callee, argc, TRUE)
       \/ \E ver \in {1, 3, 4}, callee \in {"inputi", "inputs"}, argc \in 0..MaxArgs :
            prog = ArityProgram(ver, callee, argc, FALSE)
       \/ \E struct_type \in {"P", "Q"}, way \in HoldWays :
            prog = NilTestProgram(struct_type, way)
       \/ \E alias \in BOOLEAN, n \in 0..MaxVal, m \in 0..MaxVal :
            prog = SameProgram(alias, n, m)
       \/ \E live \in BOOLEAN, other \in OtherKinds, k \in {"==", "!="},
             struct_left \in BOOLEAN :
            prog = MixedProgram(live, other, k, struct_left)
       \/ \E hop \in NilHops, explicit \in BOOLEAN, write \in BOOLEAN :
            prog = FaultProgram(hop, explicit, write)
       \/ \E way \in AliasWays, v \in 0..MaxVal : prog = AliasProgram(way, v)
       \/ \E variant \in TypeVariants, called \in BOOLEAN : prog = TypeProgram(variant, called)
       \/ \E site \in CoerceSites, kind \in CoerceKinds : prog = CoerceProgram(site, kind)
       \/ \E ver \in {1, 3, 4}, variant \in MainVariants : prog = MainProgram(ver, variant)
       \/ \E return_type \in ReturnTypes, kind \in ReturnKinds :
            prog = YieldProgram(return_type, kind)
       \/ \E ver \in {3, 4}, variant \in LoopVariants : prog = LoopProgram(ver, variant)
       \/ \E a0 \in 0..MaxVal, n \in 0..MaxChain : prog = ChainProgram(a0, n)
    /\ functions = FunctionScope
    /\ defined_types = initial_types
    /\ ctl = <<>>
    /\ vals = <<>>
    /\ envs = <<<<VariableScope>>>>
    /\ frames = <<>>
    /\ heap = <<>>
    /\ output = <<>>
    /\ input = prog.inp
    /\ status = "init"
    /\ err = ""

Spec == Init /\ [][Next]_vars

\* The runs of the chain programs alone: the steps such a program takes, and
\* the interpreter, one sequential program, taking its next step as long as it
\* has one.
ChainInit == Init /\ prog.family = "chain"

ChainNext ==
    \/ Start \/ Finish
    \/ EvalVal \/ EvalVar \/ Force \/ Memo \/ EvalBinary \/ ApplyBinary
    \/ Fcall \/ Call \/ PrintCall \/ Ret
    \/ StmtVarDef \/ StmtAssign \/ Assign \/ StmtFcall \/ Discard
    \/ Block \/ Leave \/ RunStatement \/ RunEnd \/ Check

ChainSpec == ChainInit /\ [][ChainNext]_vars /\ WF_vars(ChainNext)

----------------------------------------------------------------------------
(* Lookups in chains of function scopes.  FunctionScope.get_function and     *)
(* check_function are run on every chain of up to MaxFrames scopes holding   *)
(* functions named f: Scope.__init__ gives every scope a FunctionScope whose *)
(* parent is the caller's, and add_function can fill any of them.            *)

MaxFrames == 2

\* The keys add_function can register f under, and the variadic key.
LookupKeys == {<<"f", n>> : n \in 1..MaxArgs} \cup {<<"f", VAR_ARGS>>}

\* The chain whose scope i holds the keys shape[i]; a callable is named by
\* the scope that holds it and its key.
ChainOf(shape) ==
    [i \in DOMAIN shape |-> [key \in shape[i] |-> [kind |-> "user", scope |-> i, key |-> key]]]

LookupInit ==
    /\ \E ver \in {3, 4}, argc \in 1..MaxArgs :
         prog = [version |-> ver, family |-> "lookup",
                 params |-> [name |-> "f", argc |-> argc]]
    /\ \E n \in 1..MaxFrames : \E shape \in [1..n -> SUBSET LookupKeys] :
         functions = ChainOf(shape)
    /\ defined_types = initial_types
    /\ ctl = <<>>
    /\ vals = <<>>
    /\ envs = <<>>
    /\ frames = <<>>
    /\ heap = <<>>
    /\ output = <<>>
    /\ input = <<>>
    /\ status = "init"
    /\ err = ""

\* scope.get_function(name, argc): the callable, or the NAME error.
LookupGet ==
    /\ status = "init"
    /\ LET r == get_function(functions, prog.params.name, prog.params.argc)
       IN  IF r.err # ""
           THEN status' = "error" /\ err' = r.err /\ vals' = vals
           ELSE status' = "done" /\ err' = err /\ vals' = <<r.value>>
    /\ ctl' = <<[op |-> "get_function"]>>
    /\ UNCHANGED <<prog, functions, defined_types, envs, frames, heap, output, input>>

\* scope.check_function(name, argc, recursive): the answer.
LookupCheck ==
    /\ status = "init"
    /\ \E recursive \in BOOLEAN :
         /\ vals' = <<BoolV(check_function(functions, prog.params.name,
                                           prog.params.argc, recursive))>>
         /\ ctl' = <<[op |-> "check_function", recursive |-> recursive]>>
    /\ status' = "done"
    /\ UNCHANGED <<prog, functions, defined_types, envs, frames, heap, output, input, err>>

LookupNext == LookupGet \/ LookupCheck

LookupSpec == LookupInit /\ [][LookupNext]_vars

----------------------------------------------------------------------------
(* What the runs are checked against. *)

Positions(lines, line) == {i \in DOMAIN lines : lines[i] = line}

Times(lines, line) == Cardinality(Positions(lines, line))

Ended == status \in {"done", "error"}

\* The reads of the memo programs that reach x's bound expression: a use of x
\* itself, or a print(y) after y = x + 1.
ReadsOfX(reads) ==
    {i \in DOMAIN reads : reads[i] \in {1, 4}}
    \cup {i \in DOMAIN reads : reads[i] = 3 /\ \E j \in 1..(i - 1) : reads[j] = 2}

\* C1: in v4, after x = f() where f prints a marker, the marker is printed
\* once in total over any reads of x, those made while forcing another variable
\* whose expression mentions x included, and not at all when x is never read.
C1_MarkerOnce ==
    prog.family = "memo" =>
        /\ Times(output, "m") <= 1
        /\ status = "done" =>
             Times(output, "m") = (IF ReadsOfX(prog.params.reads) = {} THEN 0 ELSE 1)

\* C2: in v4 an argument of a call to a user function is bound unevaluated:
\* its side effects never occur when the callee does not read the parameter,
\* and occur after the callee has started when it does.
C2_ArgumentByNeed ==
    prog.family = "lazyarg" =>
        /\ prog.params.callee = "ignore" => Times(output, "arg") = 0
        /\ prog.params.callee = "use" => (output # <<>> => output[1] = "in")

\* C3 as the specification has it: in v3 a function that is not void and ends
\* without a return statement fails with a TYPE error and yields no value.
C3_TypeErrorWithoutReturn ==
    (prog.family = "noreturn" /\ Ended) => (status = "error" /\ err = "TYPE")

DefaultText(return_type) ==
    CASE return_type = "int" -> "0"
      [] return_type = "string" -> ""
      [] return_type = "bool" -> "false"
      [] OTHER -> "nil"

\* C3: in v3 a call of a function that is not void and ends without a return
\* statement does not fail: it yields the default value of the return type
\* (0, "", false, or the NIL reference of the struct type).
C3_DefaultWithoutReturn ==
    prog.family = "noreturn" =>
        /\ status # "error"
        /\ status = "done" => output = <<"body", DefaultText(prog.params.return_type)>>

C3_Witness ==
    /\ prog.family = "noreturn" /\ status = "done"
    /\ prog.params.return_type = "P" /\ prog.params.guarded
    /\ output = <<"body", "nil">>

\* The quotient rounded toward zero.
truncated(a, b) ==
    LET q == (IF a < 0 THEN -a ELSE a) \div (IF b < 0 THEN -b ELSE b)
    IN  IF (a < 0) = (b < 0) THEN q ELSE -q

\* C4: in v3 and v4, a / b with b # 0 is the quotient truncated toward zero,
\* whatever the signs of a and b.
C4_DivisionTruncates ==
    (prog.family = "div" /\ prog.params.b # 0) =>
        /\ status # "error"
        /\ status = "done" =>
             output = <<ToString(truncated(prog.params.a, prog.params.b))>>

\* C5: in v3, a == b is true and a != b false for two NIL references of the
\* same struct type, whichever way each became NIL.
C5_NilReferencesEqual ==
    prog.family = "nileq" =>
        /\ status # "error"
        /\ status = "done" => output = <<"true", "false">>

\* The frames of the versions in vers hang on the global scope: foo cannot
\* see main's x, a local x of foo leaves main's alone, and each call of rec
\* has an n of its own.
LexicalFrames(vers) ==
    (prog.family = "scope" /\ version \in vers) =>
        /\ prog.params.variant \in {"read", "assign"} =>
             /\ status # "done"
             /\ output = <<>>
             /\ status = "error" => err = "NAME"
             /\ (frames # <<>> /\ frames[1].name = "foo") =>
                  find_scope(envs[1], "x", 1) = 0
        /\ prog.params.variant = "shadow" =>
             /\ status # "error"
             /\ status = "done" => output = <<"7", "5">>
        /\ prog.params.variant = "recurse" =>
             /\ status # "error"
             /\ status = "done" => output = [i \in 1..(MaxVal + 1) |-> ToString(i - 1)]

Bars == {"bar:" \o ToString(k) : k \in 0..3}

\* C7 as the specification has it: each bar:k line once, all of them before
\* ---, both print(a) give 6, the second print(a) gives no bar: line.
C7_BarsBeforeSeparator ==
    (prog.family = "demo" /\ status = "done") =>
        /\ \A line \in Bars : Times(output, line) = 1
        /\ \A line \in Bars : \A i \in Positions(output, line) :
               \A j \in Positions(output, "---") : i < j
        /\ Times(output, "6") = 2 /\ Times(output, "---") = 2
        /\ output[Len(output)] = "6" /\ output[Len(output) - 1] = "---"

\* C7: the program of main() prints ---, then bar:0 to bar:3 in this order
\* (the first print(a) forces a), then 6, ---, 6: each bar:k line once, all of
\* them after the first --- and before the first 6, none by the second print(a).
C7_BarsAtFirstRead ==
    prog.family = "demo" =>
        /\ status # "error"
        /\ status = "done" =>
             output = <<"---", "bar:0", "bar:1", "bar:2", "bar:3", "6", "---", "6">>

C7_Witness ==
    /\ prog.family = "demo" /\ status = "done"
    /\ Times(output, "6") = 2
    /\ \A line \in Bars : Times(output, line) = 1

\* What a defer program prints: nothing of e before "bound", the side effects
\* of e at the first print(x), its value twice.
DeferOutput(kind) ==
    CASE kind = "call" -> <<"bound", "m", "1", "1">>
      [] kind = "inputi" -> <<"bound", "7", "7">>
      [] kind = "prompt" -> <<"bound", "p", "7", "7">>
      [] kind = "inputs" -> <<"bound", "7", "7">>
      [] kind = "print" -> <<"bound", "s", "nil", "nil">>
      [] kind = "captured" -> <<"bound", "m", "2", "2">>

\* C8: in v4 the assignment x = e produces no output and reads no input; the
\* side effects of e come when x is first read, and e is evaluated with the
\* variable values of the moment of the assignment (z = 1, not the later 2).
C8_EffectsAtFirstRead ==
    prog.family = "defer" =>
        /\ status # "error"
        /\ output # <<>> => output[1] = "bound"
        /\ output = <<>> => input = prog.inp
        /\ status = "done" => output = DeferOutput(prog.params.kind)

C8_Witness ==
    /\ prog.family = "defer" /\ prog.params.kind = "prompt"
    /\ output = <<"bound", "p">> /\ input = <<>>
    /\ vals # <<>> /\ vals[Len(vals)] = IntV(7)

\* C9: in v4, after y = x + 1, an assignment to x, before or after the first
\* read of y, in the same block or in an enclosing one, leaves the value of y
\* what x was at y = x + 1.
C9_BindingKeepsSnapshot ==
    prog.family = "capture" =>
        /\ status # "error"
        /\ status = "done" =>
             output = <<ToString(prog.params.a + 1), ToString(prog.params.a + 1),
                        ToString(IF prog.params.when = "before" THEN prog.params.b
                                 ELSE prog.params.b + 1)>>

C9_Witness ==
    /\ prog.family = "capture" /\ status = "done"
    /\ prog.params.when = "both" /\ prog.params.a = 0 /\ prog.params.b = 1
    /\ output = <<"1", "1", "2">>

Repeat(line, n) == [i \in 1..n |-> line]

\* What a return program prints: the lines before the return statement runs,
\* then the value returned.
ReturnOutput(shape, n) ==
    CASE shape = "if" -> IF n < 2 THEN <<ToString(10 + n)>> ELSE <<"c", "99">>
      [] shape = "else" -> IF n < 1 THEN <<"t", "c", "99">> ELSE <<ToString(10 + n)>>
      [] shape = "for" ->
           IF n < 2 THEN Repeat("b", n) \o <<ToString(10 + n)>>
           ELSE <<"b", "b", "c", "99">>
      [] shape = "forfor" ->
           IF n < 2 THEN Repeat("b", n) \o <<ToString(10 + n)>>
           ELSE <<"b", "b", "d", "b", "b", "d", "c", "99">>

\* The steps left to a call that has returned: the loops and blocks end.
UnwindSteps == {"check", "leave", "for_after", "ret"}

Returned == status = "running" /\ frames # <<>> /\ frames[1].hit_return

\* C10: in v3 and v4, once a return statement has run in any nesting of if and
\* for bodies, hit_return of the frame is set and stays set, the call runs no
\* further statement, loop condition or loop update (no output, no input, no
\* assignment: scopes are only dropped), and the call yields the value of the
\* return expression.
C10_ReturnUnwinds ==
    /\ [](Returned => (ctl # <<>> /\ Head(ctl).op \in UnwindSteps))
    /\ [][Returned =>
            /\ output' = output /\ input' = input /\ heap' = heap
            /\ \/ frames' = frames /\ vals' = vals
                  /\ (envs' = envs \/ envs' = [envs EXCEPT ![1] = Tail(@)])
               \/ /\ frames' = Tail(frames) /\ envs' = Tail(envs)
                  /\ vals' = Append(vals, frames[1].return_value)]_vars
    /\ [](prog.family = "return" =>
            /\ status # "error"
            /\ status = "done" => output = ReturnOutput(prog.params.shape, prog.params.n))

C10_Witness ==
    /\ prog.family = "return" /\ prog.params.shape = "forfor" /\ prog.params.n = 1
    /\ Returned /\ Head(ctl).op = "for_after"
    /\ frames[1].return_value = IntV(11)
    /\ output = <<"b">>

----------------------------------------------------------------------------
(* Assignment *)

\* The scopes of a chain that declare name, and the innermost of them.
Declaring(chain, name) == {i \in 1..Len(chain) : name \in DOMAIN chain[i]}

Innermost(chain, name) ==
    CHOOSE i \in Declaring(chain, name) : \A j \in Declaring(chain, name) : i <= j

\* A name without a field path.
Plain(name) == \A i \in 1..Len(name) : SubSeq(name, i, i) # "."

\* The values a v3 cell of the declared type takes: its own tag, an int for a
\* bool, and for a struct type nil or a reference of that type.
Matches(hp, var_type, value) ==
    CASE var_type = "int" -> value.t = "int"
      [] var_type = "string" -> value.t = "str"
      [] var_type = "bool" -> value.t \in {"bool", "int"}
      [] OTHER -> \/ value = NIL
                  \/ value.t = "struct" /\ hp[value.v].struct_type = var_type

\* What the cell holds after value was assigned to it.
Stored(ver, hp, var_type, value, held) ==
    IF ver # 3 THEN held = value
    ELSE IF value = NIL
    THEN held.t = "struct" /\ ~hp[held.v].live /\ hp[held.v].struct_type = var_type
    ELSE IF var_type = "bool" /\ value.t = "int" THEN held = BoolV(value.v # 0)
    ELSE held = value

\* Every cell of the chain but the one of name in scope i is as it was.
OthersKept(before, after, i, name) ==
    /\ Len(after) = Len(before)
    /\ \A j \in 1..Len(before) :
         /\ DOMAIN after[j] = DOMAIN before[j]
         /\ \A n \in DOMAIN before[j] : <<j, n>> # <<i, name>> => after[j][n] = before[j][n]

AssignStep ==
    At("assign") /\ Plain(Head(ctl).name) =>
        LET name == Head(ctl).name
            chain == envs[1]
            value == IF version = 4 THEN LazyExpression(chain, Head(ctl).e)
                     ELSE vals[Len(vals)]
        IN  IF Declaring(chain, name) = {}
            THEN status' = "error" /\ err' = "NAME" /\ envs' = envs /\ heap' = heap
            ELSE LET i == Innermost(chain, name)
                     cell == chain[i][name]
                 IN  IF version = 3 /\ ~Matches(heap, cell.var_type, value)
                     THEN status' = "error" /\ err' = "TYPE" /\ envs' = envs
                     ELSE /\ status' = "running"
                          /\ OthersKept(chain, envs'[1], i, name)
                          /\ Tail(envs') = Tail(envs)
                          /\ envs'[1][i][name].var_type = cell.var_type
                          /\ Stored(version, heap', cell.var_type, value,
                                    envs'[1][i][name].value)

TypedOk(var_type, kind) ==
    CASE var_type = "int" -> kind \in {"int", "zero"}
      [] var_type = "string" -> kind = "string"
      [] var_type = "bool" -> kind \in {"bool", "int", "zero"}
      [] OTHER -> kind \in {"nil", var_type}

AssignOutput(variant) ==
    CASE variant = "inner" -> <<"3", "3", "1">>
      [] variant = "outer" -> <<"3", "3", "3">>
      [] variant = "undeclared" -> <<>>

AssignEnds ==
    /\ prog.family = "assign" /\ Ended =>
         /\ output = AssignOutput(prog.params.variant)
         /\ IF prog.params.variant = "undeclared"
            THEN status = "error" /\ err = "NAME" ELSE status = "done"
    /\ prog.family = "typed" /\ Ended =>
         IF TypedOk(prog.params.var_type, prog.params.kind)
         THEN status = "done" /\ output = <<"ok">>
         ELSE status = "error" /\ err = "TYPE" /\ output = <<>>

\* C11: an assignment to a name writes the cell of the innermost scope of
\* the chain that declares the name and leaves every other cell, those of the
\* same name further out included, as it was; when no scope declares the name
\* it fails with NAME; in v3 a value that does not match the declared type
\* after the int to bool coercion fails with TYPE and the cell keeps the value
\* it held.
C11_AssignInnermost == []AssignEnds /\ [][AssignStep]_vars

C11_Witness ==
    /\ prog.family = "assign" /\ prog.params.variant = "inner" /\ version = 3
    /\ status = "done" /\ output = <<"3", "3", "1">>

----------------------------------------------------------------------------
(* Declarations and block scopes *)

DeclareStep ==
    At("stmt") /\ Head(ctl).s.k = "vardef" =>
        LET name == Head(ctl).s.name
            scope == envs[1][1]
        IN  IF name \in DOMAIN scope
            THEN status' = "error" /\ err' = "NAME" /\ envs' = envs
            ELSE \/ /\ version = 3 /\ Head(ctl).s.var_type \notin DOMAIN defined_types
                    /\ status' = "error" /\ err' = "TYPE" /\ envs' = envs
                 \/ /\ status' = "running"
                    /\ DOMAIN envs'[1][1] = DOMAIN scope \cup {name}
                    /\ \A n \in DOMAIN scope : envs'[1][1][n] = scope[n]
                    /\ Tail(envs'[1]) = Tail(envs[1])
                    /\ Tail(envs') = Tail(envs)

\* The lines of a shadow program: b and b + 1 from each run of the block,
\* then a.
ShadowOutput(kind, a, b) ==
    LET body == <<ToString(b), ToString(b + 1)>>
    IN  (IF kind = "for" THEN body \o body ELSE body) \o <<ToString(a)>>

ShadowEnds ==
    /\ prog.family = "shadow" /\ Ended =>
         /\ status = "done"
         /\ output = ShadowOutput(prog.params.kind, prog.params.a, prog.params.b)
    /\ prog.family = "twice" /\ Ended =>
         status = "error" /\ err = "NAME" /\ output = <<"a">>

\* C12: a declaration of x in a nested if or for block succeeds while an
\* enclosing scope declares x; the reads and writes of x in the block go to
\* the block's own cell, and once the block is left the outer x holds the
\* value it had before; a second declaration of x in the same scope fails
\* with NAME.
C12_BlockShadows == []ShadowEnds /\ [][DeclareStep]_vars

C12_Witness ==
    /\ prog.family = "shadow" /\ prog.params.kind = "for" /\ version = 3
    /\ prog.params.a = 1 /\ prog.params.b = 2
    /\ status = "done" /\ output = <<"2", "3", "2", "3", "1">>

----------------------------------------------------------------------------
(* Operand order *)

\* C13: in v3 and v4, for every binary operator, && and || included, the
\* left operand is evaluated with all its output before the right one starts,
\* the right operand is evaluated whatever the left value is, and a type
\* error of the operator comes only after both.
C13_LeftThenRight ==
    prog.family = "order" =>
        /\ Len(output) >= 1 => output[1] = "L"
        /\ Len(output) >= 2 => output[2] = "R"
        /\ status = "error" => err = "TYPE" /\ output = <<"L", "R">>
        /\ status = "done" => Len(output) = 3

C13_Witness ==
    /\ prog.family = "order" /\ version = 3
    /\ prog.params.k = "&&" /\ prog.params.left = "bool" /\ prog.params.right = "string"
    /\ status = "error" /\ err = "TYPE" /\ output = <<"L", "R">>

----------------------------------------------------------------------------
(* Calls and the number of their arguments *)

\* The calls of the arity programs a callable is declared for, counting the
\* arguments: inputi and inputs (from v3 on) take none or one, print any
\* number, foo one; there is no g.
Declared(ver, callee, argc) ==
    CASE callee = "print" -> TRUE
      [] callee = "inputi" -> argc <= 1
      [] callee = "inputs" -> ver # 1 /\ argc <= 1
      [] callee = "foo" -> argc = 1
      [] callee = "g" -> FALSE

\* v1 finds a function of the program by its name alone.
Resolves(ver, callee, argc) ==
    IF ver = 1 /\ callee = "foo" THEN TRUE ELSE Declared(ver, callee, argc)

\* The run of an arity program whose call is to resolve ends well, with the
\* line of foo when foo is called; the run of one whose call is not to resolve
\* prints nothing, reads nothing and ends with NAME.
CallOutcome(resolves) ==
    IF resolves
    THEN Ended =>
           /\ status = "done"
           /\ prog.params.callee = "foo" => Times(output, "in") = 1
           /\ prog.params.callee \in {"inputi", "inputs"} => input = <<>>
    ELSE /\ output = <<>>
         /\ input = prog.inp
         /\ Ended => status = "error" /\ err = "NAME"

----------------------------------------------------------------------------
(* Division by zero *)

\* C15: in v3 and v4, a / b with ints a and b = 0 ends the run with a TYPE
\* error: no quotient is printed and the error is not a Python exception.
C15_DivisionByZero ==
    (prog.family = "div" /\ prog.params.b = 0) =>
        /\ status # "done"
        /\ output = <<>>
        /\ status = "error" => err = "TYPE"

C15_Witness ==
    /\ prog.family = "div" /\ prog.params.b = 0 /\ prog.params.a = -MaxDiv /\ version = 4
    /\ status = "error" /\ err = "TYPE" /\ output = <<>>

----------------------------------------------------------------------------
(* Equality of struct references *)

Truth(b) == IF b THEN "true" ELSE "false"

\* C16: in v3, x == nil and nil == x are true when x holds the NIL
\* reference of its struct type and false when it holds a live instance (and
\* != the opposite); == between two live instances of one struct type is true
\* exactly when both references are the same instance, whatever their fields
\* hold.
C16_NilAndIdentity ==
    /\ prog.family = "niltest" /\ Ended =>
         /\ status = "done"
         /\ LET is_nil == prog.params.way # "new"
            IN  output = <<Truth(is_nil), Truth(is_nil), Truth(~is_nil), Truth(~is_nil)>>
    /\ prog.family = "same" /\ Ended =>
         /\ status = "done"
         /\ output = <<Truth(prog.params.alias), Truth(~prog.params.alias),
                       Truth(prog.params.alias)>>

C16_Witness ==
    /\ prog.family = "same" /\ ~prog.params.alias /\ prog.params.n = 1 /\ prog.params.m = 1
    /\ status = "done" /\ output = <<"false", "true", "false">>

----------------------------------------------------------------------------
(* Comparison of a struct reference with a value of another type *)

\* C17: in v3, == and != between a struct reference and a struct of
\* another type, an int, a string or a bool fail with a TYPE error.
C17_MixedComparisonTypeError ==
    prog.family = "mixed" =>
        /\ output = <<>>
        /\ Ended => status = "error" /\ err = "TYPE"

----------------------------------------------------------------------------
(* Field paths through NIL *)

\* Some struct dereferenced along the path is NIL: the variable the path
\* starts at, or a field on the way to the last name.
RECURSIVE NilHop(_, _, _)
NilHop(hp, chain, parts) ==
    /\ Len(parts) > 1
    /\ Declaring(chain, parts[1]) # {}
    /\ LET held == chain[Innermost(chain, parts[1])][parts[1]].value
       IN  /\ held.t = "struct"
           /\ \/ ~hp[held.v].live
              \/ NilHop(hp, <<hp[held.v].fields>>, Tail(parts))

FieldStep ==
    /\ At("assign") /\ ~Plain(Head(ctl).name) =>
         /\ NilHop(heap, envs[1], split(Head(ctl).name)) =>
              status' = "error" /\ err' = "FAULT"
         /\ status' = "error" => envs' = envs /\ heap' = heap
    /\ (/\ At("eval") /\ Head(ctl).e.k = "var" /\ ~Plain(Head(ctl).e.name)
        /\ NilHop(heap, envs[1], split(Head(ctl).e.name))) =>
         status' = "error" /\ err' = "FAULT" /\ vals' = vals

FaultEnds ==
    prog.family = "fault" /\ Ended =>
        IF prog.params.hop = "none"
        THEN /\ status = "done"
             /\ output = (IF prog.params.write THEN <<"s", "t">> ELSE <<"s", "0", "t">>)
        ELSE status = "error" /\ err = "FAULT" /\ output = <<"s">>

\* C18: in v3, a read or an assignment through a dotted path fails with
\* FAULT whenever a struct dereferenced along the path is NIL (p.n with p never
\* assigned new P, a.p.n with a.p NIL), and an assignment that fails leaves
\* every variable and every field as it was.
C18_FaultOnNilHop == []FaultEnds /\ [][FieldStep]_vars

C18_Witness ==
    /\ prog.family = "fault" /\ prog.params.hop = "a.p" /\ prog.params.write
    /\ ~prog.params.explicit
    /\ status = "error" /\ err = "FAULT" /\ output = <<"s">>

----------------------------------------------------------------------------
(* References to one instance *)

\* The instances new has made so far.
Live == {i \in DOMAIN heap : heap[i].live}

\* C19: in v3, after q = p with p a live instance, after p is passed as an
\* argument, after p is returned from a function (and after p is stored in a
\* field), a field written through one of the references is what a read
\* through the other returns; none of them makes a second instance.
C19_ReferencesShare ==
    prog.family = "alias" =>
        /\ Cardinality(Live) <= (IF prog.params.way = "field" THEN 2 ELSE 1)
        /\ Ended =>
             /\ status = "done"
             /\ output = <<ToString(prog.params.v + 1), ToString(prog.params.v + 2)>>

C19_Witness ==
    /\ prog.family = "alias" /\ prog.params.way = "return" /\ prog.params.v = 1
    /\ status = "done" /\ output = <<"2", "3">> /\ Cardinality(Live) = 1

----------------------------------------------------------------------------
(* Typed cells *)

\* The struct types of the program and the declared fields of one of them.
StructNames == {prog.structs[i].name : i \in DOMAIN prog.structs}

FieldsOf(struct_type) ==
    LET def == CHOOSE i \in DOMAIN prog.structs : prog.structs[i].name = struct_type
    IN  prog.structs[def].fields

\* The value has the tag of the declared type: an int, a string, a bool, or
\* for a struct type a reference, live or NIL, tagged with that type.
WellTyped(hp, cell) ==
    CASE cell.var_type = "int" -> cell.value.t = "int"
      [] cell.var_type = "string" -> cell.value.t = "str"
      [] cell.var_type = "bool" -> cell.value.t = "bool"
      [] OTHER -> /\ cell.var_type \in StructNames
                  /\ cell.value.t = "struct"
                  /\ cell.value.v \in DOMAIN hp
                  /\ hp[cell.value.v].struct_type = cell.var_type

\* The default of a declared type.
IsDefault(hp, var_type, held) ==
    CASE var_type = "int" -> held = IntV(0)
      [] var_type = "string" -> held = StrV("")
      [] var_type = "bool" -> held = BoolV(FALSE)
      [] OTHER -> /\ held.t = "struct"
                  /\ ~hp[held.v].live
                  /\ hp[held.v].struct_type = var_type

\* Every local and parameter of every scope of every call, and every field of
\* every instance.
CellsWellTyped ==
    /\ \A c \in DOMAIN envs : \A s \in DOMAIN envs[c] : \A n \in DOMAIN envs[c][s] :
         WellTyped(heap, envs[c][s][n])
    /\ \A i \in DOMAIN heap : heap[i].live =>
         /\ heap[i].struct_type \in StructNames
         /\ DOMAIN heap[i].fields =
              {FieldsOf(heap[i].struct_type)[f].name : f \in DOMAIN FieldsOf(heap[i].struct_type)}
         /\ \A f \in DOMAIN FieldsOf(heap[i].struct_type) :
              LET field == FieldsOf(heap[i].struct_type)[f]
              IN  /\ heap[i].fields[field.name].var_type = field.var_type
                  /\ WellTyped(heap, heap[i].fields[field.name])

\* A declaration that succeeds makes a cell of the declared type at its
\* default; a new that succeeds makes an instance with every field at its
\* default.
FreshStep ==
    /\ (version = 3 /\ At("stmt") /\ Head(ctl).s.k = "vardef" /\ status' = "running") =>
         LET cell == envs'[1][1][Head(ctl).s.name]
         IN  /\ cell.var_type = Head(ctl).s.var_type
             /\ IsDefault(heap', cell.var_type, cell.value)
    /\ (version = 3 /\ At("eval") /\ Head(ctl).e.k = "new" /\ status' = "running") =>
         LET made == vals'[Len(vals')]
         IN  /\ made.t = "struct"
             /\ made.v \notin DOMAIN heap
             /\ heap'[made.v].live
             /\ heap'[made.v].struct_type = Head(ctl).e.struct_type
             /\ \A n \in DOMAIN heap'[made.v].fields :
                  IsDefault(heap', heap'[made.v].fields[n].var_type,
                            heap'[made.v].fields[n].value)

\* C20: in v3, in every reachable state every cell (local, parameter,
\* struct field) holds a value of the tag of its declared type, for a struct
\* type T a live instance of T or the NIL reference tagged T; a cell just
\* declared holds the default of its type.
C20_CellsHoldDeclaredType == [](version = 3 => CellsWellTyped) /\ [][FreshStep]_vars

\* Inside set(p, v + 1), after s.n = v: a local, two parameters and a field.
C20_Witness ==
    /\ prog.family = "alias" /\ prog.params.way = "arg" /\ prog.params.v = 1
    /\ status = "running" /\ Len(envs) >= 2
    /\ \E j \in DOMAIN envs[1] :
         /\ DOMAIN envs[1][j] = {"s", "v"}
         /\ envs[1][j]["v"] = Variable("int", IntV(2))
         /\ envs[1][j]["s"].var_type = "P"
         /\ heap[envs[1][j]["s"].value.v].live
         /\ heap[envs[1][j]["s"].value.v].fields["n"] = Variable("int", IntV(2))
    /\ \E j \in DOMAIN envs[2] : "p" \in DOMAIN envs[2][j] /\ envs[2][j]["p"].var_type = "P"

----------------------------------------------------------------------------
(* Types named by definitions *)

\* C21: in v3, a program with a function whose parameter type or return
\* type is not a registered type, with a struct whose field names a struct not
\* yet registered, or with a struct registered twice, is rejected with TYPE
\* when the definition is registered, whether or not the function is called:
\* nothing of it runs.
C21_TypesRegisteredAtDefinition ==
    (prog.family = "types" /\ prog.params.variant \notin {"own", "fine"}) =>
        /\ status \in {"init", "error"}
        /\ status = "error" => err = "TYPE"
        /\ output = <<>>

----------------------------------------------------------------------------
(* Coercion *)

\* The values of the coerce programs that stand for a bool, and the bool.
Boolish(kind) == kind \in {"int", "zero", "bool"}

Holds(kind) == kind \in {"int", "bool"}

\* What a coerce program prints after the line s when its value is accepted.
CoerceOutput(site, kind) ==
    CASE site \in {"assign", "and", "dna", "or"} -> <<Truth(Holds(kind))>>
      [] site = "not" -> <<Truth(~Holds(kind))>>
      [] site = "if" -> <<IF Holds(kind) THEN "t" ELSE "e">>
      [] site = "for" -> IF Holds(kind) THEN <<"t">> ELSE <<>>
      [] site = "intcell" -> <<IF kind = "int" THEN "5" ELSE "0">>

\* C22: in v3, coercion turns an int into a bool (true exactly when it is
\* not 0) where a bool is wanted, at the assignment to a bool cell, at if and
\* for conditions and at the operands of &&, || and !, and changes nothing
\* else: a string or nil there fails TYPE, and a bool assigned to an int cell
\* fails TYPE.
C22_OnlyIntToBool ==
    prog.family = "coerce" /\ Ended =>
        LET site == prog.params.site
            kind == prog.params.kind
            accepted == IF site = "intcell" THEN kind \in {"int", "zero"} ELSE Boolish(kind)
        IN  IF accepted
            THEN status = "done" /\ output = <<"s">> \o CoerceOutput(site, kind)
            ELSE status = "error" /\ err = "TYPE" /\ output = <<"s">>

C22_Witness ==
    /\ prog.family = "coerce" /\ prog.params.site = "assign" /\ prog.params.kind = "int"
    /\ status = "done" /\ output = <<"s", "true">>

----------------------------------------------------------------------------
(* The driver and main *)

\* The run of a main program: without a main to call it ends with NAME
\* before any statement has run; with one, main alone is called.
DriverOutcome(has_main, lines) ==
    IF has_main
    THEN /\ Times(output, "f") = 0
         /\ Ended => status = "done" /\ output = lines
    ELSE /\ output = <<>>
         /\ input = prog.inp
         /\ frames = <<>>
         /\ Ended => status = "error" /\ err = "NAME"

----------------------------------------------------------------------------
(* The order of a function lookup *)

\* The scope a lookup is to answer from: the innermost that holds the exact
\* key or the variadic one; 0 when none does.
RECURSIVE Answering(_, _, _, _)
Answering(fchain, name, argc, i) ==
    IF i > Len(fchain) THEN 0
    ELSE IF <<name, argc>> \in DOMAIN fchain[i] \/ <<name, VAR_ARGS>> \in DOMAIN fchain[i]
    THEN i
    ELSE Answering(fchain, name, argc, i + 1)

RECURSIVE MemoLines(_, _, _, _)
MemoLines(reads, i, forced, y) ==
    IF i > Len(reads) THEN <<>>
    ELSE LET m == IF forced THEN <<>> ELSE <<"m">>
         IN  CASE reads[i] = 1 -> m \o <<"1">> \o MemoLines(reads, i + 1, TRUE, y)
               [] reads[i] = 2 ->
                    MemoLines(reads, i + 1, forced,
                              IF forced THEN "snapshot forced" ELSE "snapshot unforced")
               [] reads[i] = 3 ->
                    (CASE y = "none" -> <<"nil">>
                       [] y = "snapshot unforced" -> <<"m", "2">>
                       [] OTHER -> <<"2">>)
                    \o MemoLines(reads, i + 1, forced, IF y = "none" THEN y ELSE "value")
               [] reads[i] = 4 -> m \o <<"2">> \o MemoLines(reads, i + 1, TRUE, y)

\* The names a chain of scopes declares.
Names(chain) == UNION {DOMAIN chain[i] : i \in DOMAIN chain}

\* Forcing writes the value to the cell that was read and to nothing else:
\* every other variable of the reading scope keeps what it held, thunks
\* included, and the scopes below are as they were.
MemoStep ==
    (At("memo") /\ version = 4) =>
        LET back == Tail(envs)
            name == Head(ctl).name
        IN  /\ Len(envs') = Len(back)
            /\ \A k \in 2..Len(back) : envs'[k] = back[k]
            /\ Names(envs'[1]) = Names(back[1])
            /\ \A other \in Names(back[1]) \ {name} :
                   get_variable(4, heap, envs'[1], other)
                       = get_variable(4, heap, back[1], other)
            /\ get_variable(4, heap, envs'[1], name).value = vals[Len(vals)]
            /\ vals[Len(vals)].t # "thunk"

\* A memo program ends and prints what per-cell memoization gives.
MemoEnds ==
    prog.family = "memo" =>
        /\ status # "error"
        /\ status = "done" => output = MemoLines(prog.params.reads, 1, FALSE, "none")

\* C25: in v4, forcing overwrites only the cell being read.  After x = f(),
\* a binding y = x + 1 made while x is unforced holds its own copy of x's
\* thunk: print(y) evaluates f() in y's snapshot (the marker m is printed) and
\* leaves x's cell a thunk, so the first read of x itself evaluates f() again
\* (m is printed a second time); a y bound after x was forced prints no m.
C25_ForcesOnlyTheCellRead == []MemoEnds /\ [][MemoStep]_vars

\* y = x + 1; print(y); print(x): m is printed by print(y) and again by print(x).
C25_Witness ==
    /\ prog.family = "memo" /\ prog.params.reads = <<2, 3, 1>>
    /\ status = "done" /\ output = <<"m", "2", "m", "1">>


\* What print shows of the value a function of the declared type yields for
\* a return of the given kind (== nil for the struct types).
Yielded(return_type, kind) ==
    CASE return_type = "int" -> IF kind = "zero" THEN "0" ELSE "5"
      [] return_type = "string" -> "s"
      [] return_type = "bool" -> IF kind = "zero" THEN "false" ELSE "true"
      [] OTHER -> IF kind = "nil" THEN "true" ELSE "false"

\* C26: in v3 the value of return e is coerced (int to bool) and checked
\* against the declared return type before the call yields it: a value of
\* another type fails with TYPE, an int returned from a bool function is
\* yielded as a bool (5 as true, 0 as false), and return e in a void function
\* fails with TYPE.
C26_ReturnCoercedAndChecked ==
    (prog.family = "yield" /\ prog.params.kind # "bare" /\ Ended) =>
        LET return_type == prog.params.return_type
            kind == prog.params.kind
        IN  IF return_type # "void" /\ TypedOk(return_type, kind)
            THEN status = "done" /\ output = <<"in", Yielded(return_type, kind)>>
            ELSE status = "error" /\ err = "TYPE" /\ output = <<"in">>

\* func f():bool { print("in"); return 0; } has yielded false to print.
C26_Witness ==
    /\ prog.family = "yield" /\ prog.params.return_type = "bool"
    /\ prog.params.kind = "zero"
    /\ status = "done" /\ output = <<"in", "false">>


\* What print shows of the default value of a return type (== nil for the
\* struct types).
DefaultShown(return_type) ==
    CASE return_type = "int" -> "0"
      [] return_type = "string" -> ""
      [] return_type = "bool" -> "false"
      [] OTHER -> "true"

\* C29: in v3 a return without expression in a function whose declared return
\* type is not void ends the call normally: the call yields the default value
\* of the declared return type, the run has no failure, and the return slot of
\* the frame stays a cell of the declared type.
C29_BareReturnYieldsDefault ==
    (prog.family = "yield" /\ prog.params.kind = "bare"
         /\ prog.params.return_type # "void") =>
        /\ status # "error"
        /\ \A i \in DOMAIN frames : frames[i].name = "f" => frames[i].has_variable
        /\ status = "done" => output = <<"in", DefaultShown(prog.params.return_type)>>


\* What a loop program prints: t at its default (nil where v4 has no value
\* yet) and then i + 7, once per iteration, for i = 0 and 1.
LoopOutput(ver, variant) ==
    LET unassigned == IF ver = 3 THEN "0" ELSE "nil"
    IN  CASE variant \in {"condition", "string"} -> <<>>
          [] variant = "update" -> <<unassigned, "7">>
          [] variant = "after" -> <<unassigned, "7", unassigned, "8">>
          [] OTHER -> <<unassigned, "7", unassigned, "8", "end">>

LoopEnds ==
    (prog.family = "loop" /\ Ended) =>
        LET variant == prog.params.variant
        IN  /\ output = LoopOutput(version, variant)
            /\ CASE variant = "plain" -> status = "done"
                 [] variant = "string" -> status = "error" /\ err = "TYPE"
                 [] OTHER -> status = "error" /\ err = "NAME"

\* Where the loop evaluates its condition, decides on it, has run the body or
\* runs its update statement, the body's variable is in no scope of the chain.
BodyVariableGone ==
    (prog.family = "loop" /\ status = "running" /\ ctl # <<>>
        /\ \/ Head(ctl).op \in {"for_cond", "for_test", "for_after"}
           \/ /\ Head(ctl).op = "stmt" /\ Len(ctl) >= 2 /\ ctl[2].op = "for_cond"
              /\ Head(ctl).s = ctl[2].s.update) =>
        "t" \notin Names(envs[1])

\* The body of an iteration starts in a new, empty scope on top of the scope
\* of the loop.
FreshBodyStep ==
    (prog.family = "loop" /\ At("block")) =>
        /\ envs'[1] = <<VariableScope>> \o envs[1]
        /\ "t" \notin Names(envs[1])

\* C27: in v3 and v4 a for loop runs its init statement once, then repeats:
\* condition (TYPE when it is not a bool), body in a new scope made for the
\* iteration, update statement.  A variable the body declares is declared
\* again on every iteration without NAME, starts every iteration at its
\* default, and is not visible to the condition, to the update statement or
\* after the loop (NAME).
C27_BodyScopePerIteration ==
    []LoopEnds /\ []BodyVariableGone /\ [][FreshBodyStep]_vars

\* The second iteration has declared t again and printed it at its default.
C27_Witness ==
    /\ prog.family = "loop" /\ prog.params.variant = "plain" /\ version = 3
    /\ status = "running" /\ output = <<"0", "7", "0">>
    /\ "t" \in DOMAIN envs[1][1]


\* The thunks a chain of scopes holds in its cells, those held by the
\* snapshots of these thunks included.
RECURSIVE ThunksOf(_)
ThunksOf(chain) ==
    LET held == UNION {{chain[i][name].value : name \in DOMAIN chain[i]} : i \in DOMAIN chain}
        lazy == {value \in held : value.t = "thunk"}
    IN  lazy \cup UNION {ThunksOf(value.v.scope) : value \in lazy}

Thunks(chains) == UNION {ThunksOf(chains[k]) : k \in DOMAIN chains}

\* No value an expression has yielded (operand, condition, argument of a
\* built-in or of a function) and no return value of a call is a thunk.
NoThunkValue ==
    version = 4 =>
        /\ \A i \in DOMAIN vals : vals[i].t # "thunk"
        /\ \A i \in DOMAIN frames : frames[i].return_value.t # "thunk"

\* A thunk that the scopes did not hold before a step is held after it only
\* when the step is the assignment of an ASSIGN_NODE, and is the thunk of that
\* statement over the current scope.
ThunkStep ==
    version = 4 =>
        \A thunk \in Thunks(envs') \ Thunks(envs) :
            /\ At("assign")
            /\ thunk = LazyExpression(envs[1], Head(ctl).e)

\* C28: in v4 a thunk is never observable as a value: no value produced by
\* the evaluation of an expression and no return value is a thunk; thunks are
\* only in variable cells, where assignment statements put them.
C28_ThunksOnlyInCells == []NoThunkValue /\ [][ThunkStep]_vars

\* The read of a variable whose cell holds a thunk has produced an int.
C28_Witness ==
    /\ version = 4 /\ At("memo")
    /\ get_variable(4, heap, Tail(envs)[1], Head(ctl).name).value.t = "thunk"
    /\ vals # <<>> /\ vals[Len(vals)].t = "int"


\* How deep the snapshots nest in a thunk: 1 for a thunk whose snapshot holds
\* no thunk.
RECURSIVE Nesting(_)
Nesting(thunk) ==
    LET inner == ThunksOf(thunk.v.scope)
    IN  1 + (IF inner = {} THEN 0
             ELSE CHOOSE d \in {Nesting(t) : t \in inner} :
                      \A t \in inner : Nesting(t) <= d)

\* In a chain program the thunk of the k-th rebinding holds the thunks of the
\* k - 1 rebindings before it and no other: the chain to force is finite, and
\* forcing stays below the depth at which the model would stop it.
ChainFinite ==
    /\ Len(envs) < MaxDepth
    /\ prog.family = "chain" =>
         \A thunk \in Thunks(envs) : Nesting(thunk) <= prog.params.n + 1

\* A chain program ends, having printed a0 + n twice.
ChainDone ==
    IF prog.family = "chain"
    THEN /\ status = "done"
         /\ output = <<ToString(prog.params.a0 + prog.params.n),
                       ToString(prog.params.a0 + prog.params.n)>>
    ELSE TRUE

ChainEnds == <>ChainDone

====
